---- MODULE Spec2Model ----
(***************************************************************************)
(* A model of the minesweeper game engine of src/src/main.ts: lazy mine    *)
(* placement, reveal and flood fill, win / loss detection, hints, the      *)
(* timer and the best-time leaderboard.                                    *)
(*                                                                         *)
(* The program keeps its session in the global `state`, the leaderboard in *)
(* the global `leaderboard`, and persists the leaderboard in localStorage. *)
(* Every handler runs to completion (single-threaded event loop), so each  *)
(* handler is one action.  The operators below thread a "world" record     *)
(* [state, leaderboard, storage, intervals, settings] through the calls    *)
(* the way the code mutates its globals.                                   *)
(*                                                                         *)
(* Rendering (cellEls, renderCell, setStatus, sounds, activeRow/activeCol) *)
(* changes no engine state and is left out.  Boards are scaled down: the   *)
(* UI only offers 6x6 and larger, the model explores every board of at     *)
(* most MaxRows x MaxCols with at most MaxCells cells.                     *)
(***************************************************************************)
EXTENDS Integers, Sequences, FiniteSets, TLC

VARIABLES
    state,        \* the global GameState (main.ts:122)
    leaderboard,  \* the global LeaderboardStore (main.ts:118)
    storage,      \* localStorage[LEADERBOARD_KEY]: NULL or Some(JSON value)
    intervals,    \* ids of the setInterval timers that are active
    settings,     \* the global Settings (main.ts:117), nickname only
    tone,         \* statusEl.dataset.tone, the session status shown
    now,          \* what Date.now() returns, in ms
    firstReveal,  \* history: NULL, or Some(<<row, col>>) of the placing reveal
    pressTimers   \* the long-press timeouts that are pending, in arming order

vars == <<state, leaderboard, storage, intervals, settings, tone, now, firstReveal,
         pressTimers>>

----------------------------------------------------------------------------
(* Bounds of the model *)

MaxRows == 2
MaxCols == 3
MaxCells == 6
MaxHints == 1
MaxWins == 1
MaxPress == 1

(* Program constants *)

LEADERBOARD_LIMIT == 5
MAX_NICKNAME_LENGTH == 12
DEFAULT_NICKNAME == <<"玩", "家">>
MsPerSecond == 1000
MaxElapsed == 999

----------------------------------------------------------------------------
(* number | null *)

NULL == <<>>
Some(x) == <<x>>
Val(o) == o[1]

Min2(a, b) == IF a < b THEN a ELSE b
Max2(a, b) == IF a > b THEN a ELSE b

clamp(value, min, max) == Min2(Max2(value, min), max)

(* setStatus(text, tone): the status line; the tone names the status. *)
setStatus(w, newTone) == [w EXCEPT !.tone = newTone]

(* JSON values, as JSON.parse returns them and JSON.stringify takes them. *)
(* A JS string is a sequence of one-character strings.                    *)
JsonString(chars) == [type |-> "string", str |-> chars]
JsonNumber(n) == [type |-> "number", num |-> n]
JsonArray(items) == [type |-> "array", items |-> items]
JsonObject(members) == [type |-> "object", members |-> members]
JsonNull == [type |-> "null"]
JsonBoolean(b) == [type |-> "boolean", bool |-> b]
(* The number n + 0.5. *)
JsonHalf(n) == [type |-> "number", num |-> n, half |-> TRUE]
(* A property that is absent reads as undefined. *)
JsUndefined == [type |-> "undefined"]
(* A stored text that JSON.parse rejects. *)
Unparsable == [type |-> "unparsable"]

----------------------------------------------------------------------------
(* Board construction *)

EmptyCell ==
    [isMine |-> FALSE, isOpen |-> FALSE, isFlagged |-> FALSE,
     adjacent |-> 0, isWrongFlag |-> FALSE]

createEmptyBoard(rows, cols) ==
    [r \in 0..(rows - 1) |-> [c \in 0..(cols - 1) |-> EmptyCell]]

createInitialState(config) ==
    [config |-> config,
     board |-> createEmptyBoard(config.rows, config.cols),
     flags |-> 0,
     openCount |-> 0,
     minesPlaced |-> FALSE,
     isGameOver |-> FALSE,
     didWin |-> FALSE,
     timerId |-> NULL,
     startTime |-> NULL,
     elapsed |-> 0,
     hintsUsed |-> 0]

(* The (dr, dc) offsets in the order of the two nested loops -1..1. *)
Offsets == [k \in 1..9 |-> <<((k - 1) \div 3) - 1, ((k - 1) % 3) - 1>>]

InBounds(rows, cols, r, c) == r >= 0 /\ r < rows /\ c >= 0 /\ c < cols

(* All cells in row-major order, as the nested row / col loops visit them. *)
CellSeq(rows, cols) ==
    [i \in 1..(rows * cols) |-> <<(i - 1) \div cols, (i - 1) % cols>>]

----------------------------------------------------------------------------
(* Mine placement *)

(* Exclusions without the neighbours: only the clicked cell is kept free. *)
Exclusions_OnlyClicked(config, excludeRow, excludeCol) ==
    {excludeRow * config.cols + excludeCol}

(* placeMines, lines 397-412: the clipped 3x3 exclusion set, shrunk to the *)
(* clicked cell when it leaves too few cells for the mines.                *)
Exclusions(config, excludeRow, excludeCol) ==
    LET rows == config.rows
        cols == config.cols
        around == {(excludeRow + d[1]) * cols + (excludeCol + d[2]) :
                     d \in {o \in (-1..1) \X (-1..1) :
                              InBounds(rows, cols, excludeRow + o[1],
                                       excludeCol + o[2])}}
    IN  IF rows * cols - Cardinality(around) < config.mines
        THEN {excludeRow * cols + excludeCol}
        ELSE around

(* Positions without the exclusion test: every cell is a candidate. *)
Positions_All(config, exclusions) ==
    [i \in 1..(config.rows * config.cols) |-> i - 1]

(* placeMines, lines 414-420: the candidate indices in ascending order. *)
Positions(config, exclusions) ==
    SelectSeq([i \in 1..(config.rows * config.cols) |-> i - 1],
              LAMBDA index : index \notin exclusions)

(* The draws of Math.floor(Math.random() * (i + 1)) for i = n-1 .. 1. *)
RandomDraws(n) ==
    {js \in [1..(n - 1) -> 0..(n - 1)] : \A i \in 1..(n - 1) : js[i] <= i}

(* positions[i] <-> positions[j], with the code's 0-based indices. *)
Swap(positions, i, j) ==
    [positions EXCEPT ![i + 1] = positions[j + 1], ![j + 1] = positions[i + 1]]

(* placeMines, lines 422-425: the Fisher-Yates loop from index i down to 1. *)
RECURSIVE FisherYates(_, _, _)
FisherYates(positions, i, js) ==
    IF i <= 0 THEN positions
    ELSE FisherYates(Swap(positions, i, js[i]), i - 1, js)

(* countAdjacentMines without the diagonal neighbours. *)
countAdjacentMines_Orthogonal(board, config, row, col) ==
    Cardinality({k \in {2, 4, 6, 8} :
        /\ InBounds(config.rows, config.cols,
                    row + Offsets[k][1], col + Offsets[k][2])
        /\ board[row + Offsets[k][1]][col + Offsets[k][2]].isMine})

countAdjacentMines(board, config, row, col) ==
    Cardinality({k \in 1..9 :
        /\ Offsets[k] # <<0, 0>>
        /\ InBounds(config.rows, config.cols,
                    row + Offsets[k][1], col + Offsets[k][2])
        /\ board[row + Offsets[k][1]][col + Offsets[k][2]].isMine})

(* placeMines: js are the random draws of the shuffle. *)
placeMines(w, excludeRow, excludeCol, js) ==
    LET config == w.state.config
        rows == config.rows
        cols == config.cols
        exclusions == Exclusions(config, excludeRow, excludeCol)
        positions == Positions(config, exclusions)
        shuffled == FisherYates(positions, Len(positions) - 1, js)
        mineCells == {<<shuffled[i] \div cols, shuffled[i] % cols>> :
                        i \in 1..config.mines}
        mined == [r \in 0..(rows - 1) |-> [c \in 0..(cols - 1) |->
                    IF <<r, c>> \in mineCells
                    THEN [w.state.board[r][c] EXCEPT !.isMine = TRUE]
                    ELSE w.state.board[r][c]]]
        counted == [r \in 0..(rows - 1) |-> [c \in 0..(cols - 1) |->
                    IF mined[r][c].isMine THEN mined[r][c]
                    ELSE [mined[r][c] EXCEPT
                            !.adjacent = countAdjacentMines(mined, config, r, c)]]]
    IN  [w EXCEPT !.state.board = counted, !.state.minesPlaced = TRUE]

----------------------------------------------------------------------------
(* Timer *)

(* updateTimer that wraps at 1000 seconds, as a three-digit counter does. *)
updateTimer_Wraps(w, clock) ==
    IF w.state.startTime = NULL THEN w
    ELSE LET seconds == (clock - Val(w.state.startTime)) \div MsPerSecond
         IN  [w EXCEPT !.state.elapsed = Max2(seconds, 0) % (MaxElapsed + 1)]

updateTimer(w, clock) ==
    IF w.state.startTime = NULL THEN w
    ELSE LET seconds == (clock - Val(w.state.startTime)) \div MsPerSecond
         IN  [w EXCEPT !.state.elapsed = clamp(seconds, 0, MaxElapsed)]

(* window.setInterval returns a handle that no active timer has. *)
FreshTimerId(active) == CHOOSE id \in 1..(Cardinality(active) + 1) : id \notin active

startTimer(w, clock) ==
    IF w.state.timerId # NULL THEN w
    ELSE LET id == FreshTimerId(w.intervals)
         IN  updateTimer([w EXCEPT !.state.startTime = Some(clock),
                                   !.state.timerId = Some(id),
                                   !.intervals = @ \cup {id}], clock)

stopTimer(w) ==
    IF w.state.timerId = NULL THEN w
    ELSE [w EXCEPT !.intervals = @ \ {Val(w.state.timerId)},
                   !.state.timerId = NULL]

(* resetTimerOnly that zeroes the display and keeps the anchor. *)
resetTimerOnly_KeepsAnchor(w, clock) ==
    IF w.state.timerId # NULL
    THEN [w EXCEPT !.state.elapsed = 0]
    ELSE [w EXCEPT !.state.elapsed = 0, !.state.startTime = NULL]

resetTimerOnly(w, clock) ==
    IF w.state.timerId # NULL
    THEN [w EXCEPT !.state.elapsed = 0, !.state.startTime = Some(clock)]
    ELSE [w EXCEPT !.state.elapsed = 0, !.state.startTime = NULL]

----------------------------------------------------------------------------
(* Leaderboard *)

DigitChars == <<"0", "1", "2", "3", "4", "5", "6", "7", "8", "9">>

(* The decimal text of a non-negative integer, as a template literal gives. *)
RECURSIVE ToStr(_)
ToStr(n) ==
    IF n < 10 THEN DigitChars[n + 1]
    ELSE ToStr(n \div 10) \o DigitChars[(n % 10) + 1]

(* getConfigKey that names the board's size alone. *)
getConfigKey_SizeOnly(config) ==
    ToStr(config.cols) \o "x" \o ToStr(config.rows)

getConfigKey(config) ==
    ToStr(config.cols) \o "x" \o ToStr(config.rows) \o "-" \o ToStr(config.mines)

IsSpace(ch) == ch \in {" ", "\t", "\n"}

RECURSIVE TrimStart(_)
TrimStart(chars) ==
    IF chars # <<>> /\ IsSpace(Head(chars)) THEN TrimStart(Tail(chars)) ELSE chars

RECURSIVE TrimEnd(_)
TrimEnd(chars) ==
    IF chars # <<>> /\ IsSpace(chars[Len(chars)])
    THEN TrimEnd(SubSeq(chars, 1, Len(chars) - 1))
    ELSE chars

(* normalizeNickname(value: unknown): value is a JSON value. *)
normalizeNickname(value) ==
    IF value.type # "string" THEN DEFAULT_NICKNAME
    ELSE LET trimmed == TrimEnd(TrimStart(value.str))
         IN  IF trimmed = <<>> THEN DEFAULT_NICKNAME
             ELSE SubSeq(trimmed, 1, Min2(MAX_NICKNAME_LENGTH, Len(trimmed)))

(* An insertion that puts an entry before the entries of the same time. *)
InsertByTime_BeforeEqual(sorted, entry) ==
    LET k == Cardinality({i \in 1..Len(sorted) : sorted[i].time < entry.time})
    IN  SubSeq(sorted, 1, k) \o <<entry>> \o SubSeq(sorted, k + 1, Len(sorted))

(* records.sort((a, b) => a.time - b.time): Array.prototype.sort is stable, *)
(* so each entry goes behind the entries before it whose time is not       *)
(* greater.                                                                *)
InsertByTime(sorted, entry) ==
    LET k == Cardinality({i \in 1..Len(sorted) : sorted[i].time <= entry.time})
    IN  SubSeq(sorted, 1, k) \o <<entry>> \o SubSeq(sorted, k + 1, Len(sorted))

RECURSIVE SortByTime(_)
SortByTime(records) ==
    IF records = <<>> THEN <<>>
    ELSE InsertByTime(SortByTime(SubSeq(records, 1, Len(records) - 1)),
                      records[Len(records)])

(* slice(0, LEADERBOARD_LIMIT) *)
TopRecords(records) == SubSeq(records, 1, Min2(LEADERBOARD_LIMIT, Len(records)))

(* leaderboard[key] ?? [] *)
RecordsOf(store, key) == IF key \in DOMAIN store THEN store[key] ELSE <<>>

EmptyStore == [key \in {} |-> <<>>]

(* JSON.stringify(store), as the value JSON.parse gives back. *)
StoreToJson(store) ==
    JsonObject([key \in DOMAIN store |->
        JsonArray([i \in 1..Len(store[key]) |->
            JsonObject([name |-> JsonString(store[key][i].name),
                        time |-> JsonNumber(store[key][i].time)])])])

(* saveLeaderboard: localStorage.setItem may throw (writeOk = FALSE); the *)
(* failure is swallowed and the stored payload stays what it was.         *)
saveLeaderboard(w, store, writeOk) ==
    IF writeOk THEN [w EXCEPT !.storage = Some(StoreToJson(store))] ELSE w

(* recordWin that leaves the records in the order of arrival. *)
recordWin_Unsorted(w, time, writeOk) ==
    LET key == getConfigKey(w.state.config)
        records == Append(RecordsOf(w.leaderboard, key),
                          [name |-> normalizeNickname(JsonString(w.settings.nickname)),
                           time |-> time])
        kept == TopRecords(records)
        store == [k \in DOMAIN w.leaderboard \cup {key} |->
                    IF k = key THEN kept ELSE w.leaderboard[k]]
    IN  saveLeaderboard([w EXCEPT !.leaderboard = store], store, writeOk)

(* recordWin that keeps the new records only if they could be stored. *)
recordWin_KeepsIfStored(w, time, writeOk) ==
    LET key == getConfigKey(w.state.config)
        records == Append(RecordsOf(w.leaderboard, key),
                          [name |-> normalizeNickname(JsonString(w.settings.nickname)),
                           time |-> time])
        kept == TopRecords(SortByTime(records))
        store == [k \in DOMAIN w.leaderboard \cup {key} |->
                    IF k = key THEN kept ELSE w.leaderboard[k]]
    IN  IF writeOk THEN saveLeaderboard([w EXCEPT !.leaderboard = store], store, writeOk)
        ELSE w

recordWin(w, time, writeOk) ==
    LET key == getConfigKey(w.state.config)
        records == Append(RecordsOf(w.leaderboard, key),
                          [name |-> normalizeNickname(JsonString(w.settings.nickname)),
                           time |-> time])
        kept == TopRecords(SortByTime(records))
        store == [k \in DOMAIN w.leaderboard \cup {key} |->
                    IF k = key THEN kept ELSE w.leaderboard[k]]
    IN  saveLeaderboard([w EXCEPT !.leaderboard = store], store, writeOk)

(* A JS number: not a number, or whole + (half ? 0.5 : 0). *)
NaN == [nan |-> TRUE, whole |-> 0, half |-> FALSE]
JsNumber(whole, half) == [nan |-> FALSE, whole |-> whole, half |-> half]

IsDigit(ch) == \E d \in 1..10 : DigitChars[d] = ch

DigitValue(ch) == (CHOOSE d \in 1..10 : DigitChars[d] = ch) - 1

RECURSIVE DigitsValue(_)
DigitsValue(chars) ==
    IF chars = <<>> THEN 0
    ELSE 10 * DigitsValue(SubSeq(chars, 1, Len(chars) - 1))
            + DigitValue(chars[Len(chars)])

(* Number(value) for the values explored: a number is itself, a string is *)
(* trimmed and read as decimal digits ("" is 0, any other text is NaN),   *)
(* null is 0, a boolean 0 or 1, undefined and objects are NaN, an array   *)
(* is read as the text of its elements.  Signs, fractions, exponents and  *)
(* hexadecimal digits in strings are outside the payloads explored.       *)
ToNumber(value) ==
    CASE value.type = "number" ->
            JsNumber(value.num, "half" \in DOMAIN value)
      [] value.type = "string" ->
            LET trimmed == TrimEnd(TrimStart(value.str))
            IN  IF \A i \in 1..Len(trimmed) : IsDigit(trimmed[i])
                THEN JsNumber(DigitsValue(trimmed), FALSE)
                ELSE NaN
      [] value.type = "null" -> JsNumber(0, FALSE)
      [] value.type = "boolean" -> JsNumber(IF value.bool THEN 1 ELSE 0, FALSE)
      [] value.type = "array" /\ Len(value.items) = 0 -> JsNumber(0, FALSE)
      [] OTHER -> NaN

MathFloor(x) == [x EXCEPT !.half = FALSE]

(* The validity test without its upper limit. *)
IsValidTime_NoCeiling(time) == ~time.nan /\ time.whole >= 0

(* Number.isFinite(time) && time >= 0 && time <= 999, time being floored. *)
IsValidTime(time) == ~time.nan /\ time.whole >= 0 /\ time.whole <= MaxElapsed

(* candidate.name, candidate.time: a property of an object; an array has *)
(* neither.                                                              *)
Member(item, key) ==
    IF item.type = "object" /\ key \in DOMAIN item.members
    THEN item.members[key]
    ELSE JsUndefined

(* The body of value.forEach without `migrated = true` for a legacy item. *)
SanitizeItem_LegacyUnmarked(item) ==
    IF item.type \in {"number", "string"}
    THEN LET time == MathFloor(ToNumber(item))
         IN  IF IsValidTime(time)
             THEN [entries |-> <<[name |-> DEFAULT_NICKNAME, time |-> time.whole]>>,
                   migrated |-> FALSE]
             ELSE [entries |-> <<>>, migrated |-> FALSE]
    ELSE IF item.type \notin {"object", "array"}
         THEN [entries |-> <<>>, migrated |-> FALSE]
         ELSE LET time == MathFloor(ToNumber(Member(item, "time")))
                  name == normalizeNickname(Member(item, "name"))
              IN  IF ~IsValidTime(time)
                  THEN [entries |-> <<>>, migrated |-> FALSE]
                  ELSE [entries |-> <<[name |-> name, time |-> time.whole]>>,
                        migrated |-> Member(item, "name") # JsonString(name)]

(* The body of value.forEach without `migrated = true` for a changed name. *)
SanitizeItem_RenameUnmarked(item) ==
    IF item.type \in {"number", "string"}
    THEN LET time == MathFloor(ToNumber(item))
         IN  IF IsValidTime(time)
             THEN [entries |-> <<[name |-> DEFAULT_NICKNAME, time |-> time.whole]>>,
                   migrated |-> TRUE]
             ELSE [entries |-> <<>>, migrated |-> FALSE]
    ELSE IF item.type \notin {"object", "array"}
         THEN [entries |-> <<>>, migrated |-> FALSE]
         ELSE LET time == MathFloor(ToNumber(Member(item, "time")))
                  name == normalizeNickname(Member(item, "name"))
              IN  IF ~IsValidTime(time)
                  THEN [entries |-> <<>>, migrated |-> FALSE]
                  ELSE [entries |-> <<[name |-> name, time |-> time.whole]>>,
                        migrated |-> FALSE]

(* The body of value.forEach in loadLeaderboard: the entries one item adds *)
(* and whether it sets `migrated`.                                        *)
SanitizeItem(item) ==
    IF item.type \in {"number", "string"}
    THEN LET time == MathFloor(ToNumber(item))
         IN  IF IsValidTime(time)
             THEN [entries |-> <<[name |-> DEFAULT_NICKNAME, time |-> time.whole]>>,
                   migrated |-> TRUE]
             ELSE [entries |-> <<>>, migrated |-> FALSE]
    ELSE IF item.type \notin {"object", "array"}
         THEN [entries |-> <<>>, migrated |-> FALSE]
         ELSE LET time == MathFloor(ToNumber(Member(item, "time")))
                  name == normalizeNickname(Member(item, "name"))
              IN  IF ~IsValidTime(time)
                  THEN [entries |-> <<>>, migrated |-> FALSE]
                  ELSE [entries |-> <<[name |-> name, time |-> time.whole]>>,
                        migrated |-> Member(item, "name") # JsonString(name)]

RECURSIVE SanitizeItems(_)
SanitizeItems(items) ==
    IF items = <<>> THEN [entries |-> <<>>, migrated |-> FALSE]
    ELSE LET front == SanitizeItems(SubSeq(items, 1, Len(items) - 1))
             last == SanitizeItem(items[Len(items)])
         IN  [entries |-> front.entries \o last.entries,
              migrated |-> front.migrated \/ last.migrated]

(* loadLeaderboard without the Array.isArray(parsed) test: the elements *)
(* of a stored array are read as the values of the keys "0", "1", ...   *)
loadLeaderboard_ReadsArrays(w, readOk, writeOk) ==
    IF ~readOk \/ w.storage = NULL THEN [w |-> w, store |-> EmptyStore]
    ELSE LET parsed == Val(w.storage)
         IN  IF parsed.type \notin {"object", "array"}
             THEN [w |-> w, store |-> EmptyStore]
             ELSE LET members ==
                          IF parsed.type = "object" THEN parsed.members
                          ELSE [key \in {ToStr(i - 1) : i \in 1..Len(parsed.items)} |->
                                   parsed.items[CHOOSE i \in 1..Len(parsed.items) :
                                                  ToStr(i - 1) = key]]
                      arrays == {key \in DOMAIN members : members[key].type = "array"}
                      items == [key \in arrays |-> SanitizeItems(members[key].items)]
                      kept == {key \in arrays : Len(items[key].entries) > 0}
                      sanitized == [key \in kept |->
                                     TopRecords(SortByTime(items[key].entries))]
                      migrated == \E key \in arrays : items[key].migrated
                  IN  [w |-> IF migrated THEN saveLeaderboard(w, sanitized, writeOk)
                             ELSE w,
                       store |-> sanitized]

(* loadLeaderboard returns a store and may write it back: [w, store].      *)
(* readOk: whether localStorage.getItem succeeds; writeOk: whether setItem *)
(* does.                                                                   *)
loadLeaderboard(w, readOk, writeOk) ==
    IF ~readOk \/ w.storage = NULL THEN [w |-> w, store |-> EmptyStore]
    ELSE LET parsed == Val(w.storage)
         IN  IF parsed.type # "object" THEN [w |-> w, store |-> EmptyStore]
             ELSE LET arrays == {key \in DOMAIN parsed.members :
                                    parsed.members[key].type = "array"}
                      items == [key \in arrays |->
                                    SanitizeItems(parsed.members[key].items)]
                      kept == {key \in arrays : Len(items[key].entries) > 0}
                      sanitized == [key \in kept |->
                                     TopRecords(SortByTime(items[key].entries))]
                      migrated == \E key \in arrays : items[key].migrated
                  IN  [w |-> IF migrated THEN saveLeaderboard(w, sanitized, writeOk)
                             ELSE w,
                       store |-> sanitized]

(* the clear-records button *)
clearRecords(w, writeOk) ==
    saveLeaderboard([w EXCEPT !.leaderboard = EmptyStore], EmptyStore, writeOk)

----------------------------------------------------------------------------
(* Reveal engine *)

(* revealMines that opens the mines and leaves the wrong flags alone. *)
revealMines_MinesOnly(w) ==
    [w EXCEPT !.state.board =
        [r \in DOMAIN @ |-> [c \in DOMAIN @[r] |->
            IF @[r][c].isMine THEN [@[r][c] EXCEPT !.isOpen = TRUE]
            ELSE @[r][c]]]]

(* revealMines that marks a wrong flag and leaves its cell closed. *)
revealMines_LeavesClosed(w) ==
    [w EXCEPT !.state.board =
        [r \in DOMAIN @ |-> [c \in DOMAIN @[r] |->
            IF @[r][c].isMine THEN [@[r][c] EXCEPT !.isOpen = TRUE]
            ELSE IF @[r][c].isFlagged
                 THEN [@[r][c] EXCEPT !.isWrongFlag = TRUE]
                 ELSE @[r][c]]]]

revealMines(w) ==
    [w EXCEPT !.state.board =
        [r \in DOMAIN @ |-> [c \in DOMAIN @[r] |->
            IF @[r][c].isMine THEN [@[r][c] EXCEPT !.isOpen = TRUE]
            ELSE IF @[r][c].isFlagged
                 THEN [@[r][c] EXCEPT !.isOpen = TRUE, !.isWrongFlag = TRUE]
                 ELSE @[r][c]]]]

(* endGame that zeroes the timer before it records the win. *)
endGame_ResetsFirst(w, didWin, writeOk) ==
    LET stopped == resetTimerOnly(stopTimer([w EXCEPT !.state.isGameOver = TRUE,
                                                      !.state.didWin = didWin]), 0)
    IN  IF didWin
        THEN setStatus(recordWin(stopped, stopped.state.elapsed, writeOk), "win")
        ELSE revealMines(setStatus(stopped, "lose"))

(* endGame that records the time of every game that ends. *)
endGame_RecordsAlways(w, didWin, writeOk) ==
    LET stopped == stopTimer([w EXCEPT !.state.isGameOver = TRUE,
                                       !.state.didWin = didWin])
        recorded == recordWin(stopped, stopped.state.elapsed, writeOk)
    IN  IF didWin
        THEN setStatus(recorded, "win")
        ELSE revealMines(setStatus(recorded, "lose"))

endGame(w, didWin, writeOk) ==
    LET stopped == stopTimer([w EXCEPT !.state.isGameOver = TRUE,
                                       !.state.didWin = didWin])
    IN  IF didWin
        THEN setStatus(recordWin(stopped, stopped.state.elapsed, writeOk), "win")
        ELSE revealMines(setStatus(stopped, "lose"))

(* checkWin with > in place of >=. *)
checkWin_Strict(w, writeOk) ==
    LET safeCells == w.state.config.rows * w.state.config.cols - w.state.config.mines
    IN  IF w.state.openCount > safeCells
        THEN [w |-> endGame(w, TRUE, writeOk), won |-> TRUE]
        ELSE [w |-> w, won |-> FALSE]

(* checkWin returns a boolean and may end the game: [w, won]. *)
checkWin(w, writeOk) ==
    LET safeCells == w.state.config.rows * w.state.config.cols - w.state.config.mines
    IN  IF w.state.openCount >= safeCells
        THEN [w |-> endGame(w, TRUE, writeOk), won |-> TRUE]
        ELSE [w |-> w, won |-> FALSE]

(* SkipsNeighbor without the flag test: the flood opens flagged cells. *)
SkipsNeighbor_IgnoreFlag(neighbor) == neighbor.isOpen \/ neighbor.isMine

(* floodOpen, line 524: the neighbours the flood leaves alone. *)
SkipsNeighbor(neighbor) ==
    neighbor.isOpen \/ neighbor.isFlagged \/ neighbor.isMine

(* floodOpen, lines 518-530: the dr / dc loops around one popped cell, from *)
(* offset k on.  s is the session state, stack what is left to expand.     *)
RECURSIVE FloodNeighbors(_, _, _, _, _)
FloodNeighbors(s, stack, row, col, k) ==
    IF k > 9 THEN [s |-> s, stack |-> stack]
    ELSE LET nr == row + Offsets[k][1]
             nc == col + Offsets[k][2]
         IN  IF ~InBounds(s.config.rows, s.config.cols, nr, nc)
             THEN FloodNeighbors(s, stack, row, col, k + 1)
             ELSE LET neighbor == s.board[nr][nc]
                  IN  IF SkipsNeighbor(neighbor)
                      THEN FloodNeighbors(s, stack, row, col, k + 1)
                      ELSE FloodNeighbors(
                             [s EXCEPT !.board[nr][nc].isOpen = TRUE,
                                       !.openCount = @ + 1],
                             IF neighbor.adjacent = 0
                             THEN Append(stack, <<nr, nc>>) ELSE stack,
                             row, col, k + 1)

(* floodOpen, lines 516-531: pop until the stack is empty. *)
RECURSIVE FloodLoop(_, _)
FloodLoop(s, stack) ==
    IF stack = <<>> THEN s
    ELSE LET top == stack[Len(stack)]
             popped == SubSeq(stack, 1, Len(stack) - 1)
             step == FloodNeighbors(s, popped, top[1], top[2], 1)
         IN  FloodLoop(step.s, step.stack)

(* floodOpen, lines 516-531: the coordinates stack.push takes while the *)
(* loop runs from stack, in the order they are pushed.                  *)
RECURSIVE FloodPushed(_, _)
FloodPushed(s, stack) ==
    IF stack = <<>> THEN <<>>
    ELSE LET top == stack[Len(stack)]
             popped == SubSeq(stack, 1, Len(stack) - 1)
             step == FloodNeighbors(s, popped, top[1], top[2], 1)
         IN  SubSeq(step.stack, Len(popped) + 1, Len(step.stack))
                \o FloodPushed(step.s, step.stack)

(* floodOpen that opens the cells around the start and goes no further. *)
floodOpen_OneRing(w, startRow, startCol) ==
    [w EXCEPT !.state = FloodNeighbors(@, <<>>, startRow, startCol, 1).s]

(* floodOpen that opens without counting. *)
floodOpen_Uncounted(w, startRow, startCol) ==
    [w EXCEPT !.state = [FloodLoop(@, << <<startRow, startCol>> >>)
                            EXCEPT !.openCount = w.state.openCount]]

(* floodOpen that expands nothing: only the revealed cell stays open. *)
floodOpen_StartOnly(w, startRow, startCol) == w

floodOpen(w, startRow, startCol) ==
    [w EXCEPT !.state = FloodLoop(@, << <<startRow, startCol>> >>)]

(* openCell without the test that the cell is closed. *)
openCell_NoOpenTest(w, row, col) ==
    LET cell == w.state.board[row][col]
        marked == [w EXCEPT !.state.board[row][col].isOpen = TRUE,
                            !.state.openCount = @ + 1]
    IN  IF cell.isFlagged THEN [w |-> w, opened |-> FALSE]
        ELSE IF cell.isMine
             THEN [w |-> endGame(marked, FALSE, FALSE), opened |-> FALSE]
             ELSE IF cell.adjacent = 0
                  THEN [w |-> floodOpen(marked, row, col), opened |-> TRUE]
                  ELSE [w |-> marked, opened |-> TRUE]

(* openCell returns a boolean and changes the session: [w, opened].  The *)
(* loss branch of endGame writes nothing to storage.                     *)
openCell(w, row, col) ==
    LET cell == w.state.board[row][col]
        marked == [w EXCEPT !.state.board[row][col].isOpen = TRUE,
                            !.state.openCount = @ + 1]
    IN  IF cell.isOpen \/ cell.isFlagged THEN [w |-> w, opened |-> FALSE]
        ELSE IF cell.isMine
             THEN [w |-> endGame(marked, FALSE, FALSE), opened |-> FALSE]
             ELSE IF cell.adjacent = 0
                  THEN [w |-> floodOpen(marked, row, col), opened |-> TRUE]
                  ELSE [w |-> marked, opened |-> TRUE]

(* handleCellClick that reveals open cells again. *)
handleCellClick_NoOpenTest(w, row, col, js, clock, writeOk) ==
    IF w.state.isGameOver THEN w
    ELSE IF w.state.board[row][col].isFlagged
         THEN w
         ELSE LET placed == IF ~w.state.minesPlaced
                            THEN setStatus(startTimer(placeMines(w, row, col, js),
                                                      clock), "playing")
                            ELSE w
                  opened == openCell_NoOpenTest(placed, row, col)
              IN  IF opened.w.state.isGameOver THEN opened.w
                  ELSE checkWin(opened.w, writeOk).w

(* handleCellClick without the test that the game is over. *)
handleCellClick_NoGameOverTest(w, row, col, js, clock, writeOk) ==
    IF w.state.board[row][col].isOpen \/ w.state.board[row][col].isFlagged
    THEN w
    ELSE LET placed == IF ~w.state.minesPlaced
                       THEN setStatus(startTimer(placeMines(w, row, col, js),
                                                 clock), "playing")
                       ELSE w
             opened == openCell(placed, row, col)
         IN  checkWin(opened.w, writeOk).w

(* js: the shuffle's draws, used when this is the first reveal; clock: *)
(* Date.now(); writeOk: whether localStorage.setItem succeeds.         *)
handleCellClick(w, row, col, js, clock, writeOk) ==
    IF w.state.isGameOver THEN w
    ELSE IF w.state.board[row][col].isOpen \/ w.state.board[row][col].isFlagged
         THEN w
         ELSE LET placed == IF ~w.state.minesPlaced
                            THEN setStatus(startTimer(placeMines(w, row, col, js),
                                                      clock), "playing")
                            ELSE w
                  opened == openCell(placed, row, col)
              IN  IF opened.w.state.isGameOver THEN opened.w
                  ELSE checkWin(opened.w, writeOk).w

(* toggleFlag without the test that the game is over. *)
toggleFlag_NoGameOverTest(w, row, col) ==
    IF w.state.board[row][col].isOpen THEN w
    ELSE [w EXCEPT !.state.board[row][col].isFlagged = ~@,
                   !.state.flags =
                       IF w.state.board[row][col].isFlagged
                       THEN @ - 1 ELSE @ + 1]

(* toggleFlag without the test that the cell is closed. *)
toggleFlag_NoOpenTest(w, row, col) ==
    IF w.state.isGameOver THEN w
    ELSE [w EXCEPT !.state.board[row][col].isFlagged = ~@,
                   !.state.flags =
                       IF w.state.board[row][col].isFlagged
                       THEN @ - 1 ELSE @ + 1]

(* toggleFlag that counts every toggle as a flag set. *)
toggleFlag_CountsUp(w, row, col) ==
    IF w.state.isGameOver THEN w
    ELSE IF w.state.board[row][col].isOpen THEN w
         ELSE [w EXCEPT !.state.board[row][col].isFlagged = ~@,
                        !.state.flags = @ + 1]

toggleFlag(w, row, col) ==
    IF w.state.isGameOver THEN w
    ELSE IF w.state.board[row][col].isOpen THEN w
         ELSE [w EXCEPT !.state.board[row][col].isFlagged = ~@,
                        !.state.flags =
                            IF w.state.board[row][col].isFlagged
                            THEN @ - 1 ELSE @ + 1]

----------------------------------------------------------------------------
(* Hints *)

(* findHintCell that picks from the two pools put together. *)
HintPool_Merged(s) ==
    LET cells == CellSeq(s.config.rows, s.config.cols)
    IN  SelectSeq(cells, LAMBDA p :
            LET cell == s.board[p[1]][p[2]]
            IN  ~(cell.isOpen \/ cell.isFlagged \/ cell.isMine))

(* findHintCell's pool without the fall-back to the cells beside mines. *)
HintPool_ZerosOnly(s) ==
    LET cells == CellSeq(s.config.rows, s.config.cols)
    IN  SelectSeq(cells, LAMBDA p :
            LET cell == s.board[p[1]][p[2]]
            IN  ~(cell.isOpen \/ cell.isFlagged \/ cell.isMine) /\ cell.adjacent = 0)

(* findHintCell, lines 661-675: the pool the random pick is made from. *)
HintPool(s) ==
    LET cells == CellSeq(s.config.rows, s.config.cols)
        eligible(p) == LET cell == s.board[p[1]][p[2]]
                       IN  ~(cell.isOpen \/ cell.isFlagged \/ cell.isMine)
        zeros == SelectSeq(cells, LAMBDA p :
                    eligible(p) /\ s.board[p[1]][p[2]].adjacent = 0)
        candidates == SelectSeq(cells, LAMBDA p :
                    eligible(p) /\ s.board[p[1]][p[2]].adjacent # 0)
    IN  IF Len(zeros) > 0 THEN zeros ELSE candidates

(* findHintCell: rnd is Math.floor(Math.random() * pool.length). *)
findHintCell(w, rnd) ==
    LET pool == HintPool(w.state)
    IN  IF Len(pool) = 0 THEN NULL ELSE Some(pool[rnd + 1])

(* The values Math.floor(Math.random() * n) can take. *)
RandomBelow(n) == 0..(Max2(n, 1) - 1)

(* handleHint that counts the hints that find no cell to show. *)
handleHint_CountsMisses(w, row, col, rnd, js, clock, writeOk) ==
    IF w.state.isGameOver THEN w
    ELSE IF ~w.state.minesPlaced
         THEN [handleCellClick(w, row, col, js, clock, writeOk)
                 EXCEPT !.state.hintsUsed = @ + 1]
         ELSE [w EXCEPT !.state.hintsUsed = @ + 1]

(* handleHint that opens the cell it shows. *)
handleHint_OpensHint(w, row, col, rnd, js, clock, writeOk) ==
    IF w.state.isGameOver THEN w
    ELSE IF ~w.state.minesPlaced
         THEN [handleCellClick(w, row, col, js, clock, writeOk)
                 EXCEPT !.state.hintsUsed = @ + 1]
         ELSE IF findHintCell(w, rnd) = NULL THEN w
              ELSE [handleCellClick(w, Val(findHintCell(w, rnd))[1],
                                    Val(findHintCell(w, rnd))[2], js, clock, writeOk)
                      EXCEPT !.state.hintsUsed = @ + 1]

(* handleHint: row, col are the random cell of the opening hint, rnd the *)
(* random pick from the pool; showHint only touches the DOM.             *)
handleHint(w, row, col, rnd, js, clock, writeOk) ==
    IF w.state.isGameOver THEN w
    ELSE IF ~w.state.minesPlaced
         THEN [handleCellClick(w, row, col, js, clock, writeOk)
                 EXCEPT !.state.hintsUsed = @ + 1]
         ELSE IF findHintCell(w, rnd) = NULL THEN w
              ELSE [w EXCEPT !.state.hintsUsed = @ + 1]

----------------------------------------------------------------------------
(* New game *)

(* startNewGame that leaves the running timer alone. *)
startNewGame_KeepsTimer(w, config, clock) ==
    setStatus(resetTimerOnly([w EXCEPT !.state = createInitialState(config)], clock),
              "ready")

(* startNewGame that carries the count of hints into the new session. *)
startNewGame_KeepsHints(w, config, clock) ==
    setStatus(resetTimerOnly([stopTimer(w) EXCEPT
                                !.state = [createInitialState(config) EXCEPT
                                             !.hintsUsed = w.state.hintsUsed]],
                             clock),
              "ready")

(* startNewGame that carries minesPlaced into the new session. *)
startNewGame_KeepsPlaced(w, config, clock) ==
    setStatus(resetTimerOnly([stopTimer(w) EXCEPT
                                !.state = [createInitialState(config) EXCEPT
                                             !.minesPlaced = w.state.minesPlaced]],
                             clock),
              "ready")

startNewGame(w, config, clock) ==
    setStatus(resetTimerOnly([stopTimer(w) EXCEPT
                                !.state = createInitialState(config)], clock),
              "ready")

----------------------------------------------------------------------------
(* The randomness of the shuffle *)

(* The shuffle's draws that leave the mine set mineSet in front: at each  *)
(* index i the last element of positions[0..i] that is no mine is moved to *)
(* i, and nothing is moved once only mines are left.                      *)
RECURSIVE DrawsFor(_, _, _, _)
DrawsFor(positions, i, mineSet, js) ==
    IF i <= 0 THEN js
    ELSE LET free == {k \in 0..i : positions[k + 1] \notin mineSet}
             j == IF free = {} THEN i
                  ELSE CHOOSE k \in free : \A other \in free : other <= k
         IN  DrawsFor(Swap(positions, i, j), i - 1, mineSet,
                      [js EXCEPT ![i] = j])

(* One vector of draws for every mine set the shuffle can produce.  The   *)
(* first `mines` elements of the shuffled sequence are read as a set, so   *)
(* the draws that only reorder the mines, or only reorder the other cells, *)
(* give the same board: DrawsCovered states it.                           *)
CanonicalDraws(positions, mines) ==
    {DrawsFor(positions, Len(positions) - 1, mineSet,
              [i \in 1..(Len(positions) - 1) |-> i]) :
        mineSet \in {m \in SUBSET {positions[i] : i \in 1..Len(positions)} :
                        Cardinality(m) = mines}}

----------------------------------------------------------------------------
(* The state machine *)

(* Every configuration 0 < mines < rows * cols of the boards explored. *)
Configs ==
    {config \in [rows : 1..MaxRows, cols : 1..MaxCols, mines : 1..(MaxCells - 1)] :
        /\ config.rows * config.cols <= MaxCells
        /\ config.mines < config.rows * config.cols}

World ==
    [state |-> state, leaderboard |-> leaderboard, storage |-> storage,
     intervals |-> intervals, settings |-> settings, tone |-> tone]

Commit(w) ==
    /\ state' = w.state
    /\ leaderboard' = w.leaderboard
    /\ storage' = w.storage
    /\ intervals' = w.intervals
    /\ settings' = w.settings
    /\ tone' = w.tone

Rows == 0..(state.config.rows - 1)
Cols == 0..(state.config.cols - 1)

(* The candidate positions of a first reveal at (row, col). *)
Candidates(row, col) ==
    Positions(state.config, Exclusions(state.config, row, col))

(* The draws a reveal at (row, col) makes: none once the mines are placed. *)
AllDraws(row, col) ==
    IF state.minesPlaced THEN RandomDraws(0)
    ELSE RandomDraws(Len(Candidates(row, col)))

ShuffleDraws(row, col) ==
    IF state.minesPlaced THEN RandomDraws(0)
    ELSE CanonicalDraws(Candidates(row, col), state.config.mines)

(* Whether localStorage.setItem succeeds.  done is the handler's outcome  *)
(* when it does: a failing write shows only where a write changes the     *)
(* stored payload.                                                        *)
WriteOutcomes(done) == IF done.storage = storage THEN {TRUE} ELSE BOOLEAN

(* Page load: loadLeaderboard finds nothing stored, init() starts a game. *)
Init ==
    /\ \E config \in Configs : state = createInitialState(config)
    /\ leaderboard = EmptyStore
    /\ storage = NULL
    /\ intervals = {}
    /\ settings = [nickname |-> DEFAULT_NICKNAME]
    /\ tone = "ready"
    /\ now = 0
    /\ firstReveal = NULL
    /\ pressTimers = <<>>

(* click, Space or Enter on a cell of the board *)
Reveal ==
    \E row \in Rows, col \in Cols :
      \E js \in ShuffleDraws(row, col) :
        \E done \in {handleCellClick(World, row, col, js, now, TRUE)} :
          \E writeOk \in WriteOutcomes(done) :
            \E next \in {IF writeOk THEN done
                         ELSE handleCellClick(World, row, col, js, now, FALSE)} :
              /\ Commit(next)
              /\ UNCHANGED <<now, firstReveal, pressTimers>>

(* contextmenu, long press or F on a cell of the board *)
Flag ==
    \E row \in Rows, col \in Cols :
      \E next \in {toggleFlag(World, row, col)} :
        /\ Commit(next)
        /\ UNCHANGED <<now, firstReveal, pressTimers>>

(* The random cell of the opening hint, drawn while no mines are placed. *)
HintCells == IF state.minesPlaced THEN {<<0, 0>>} ELSE Rows \X Cols

(* The random pick from the hint pool, drawn once the mines are placed. *)
HintPicks ==
    IF state.minesPlaced THEN RandomBelow(Len(HintPool(state))) ELSE {0}

(* the hint button *)
Hint ==
    /\ state.hintsUsed < MaxHints
    /\ \E cell \in HintCells, rnd \in HintPicks :
         \E js \in ShuffleDraws(cell[1], cell[2]) :
           \E done \in {handleHint(World, cell[1], cell[2], rnd, js, now, TRUE)} :
             \E writeOk \in WriteOutcomes(done) :
               \E next \in {IF writeOk THEN done
                            ELSE handleHint(World, cell[1], cell[2], rnd, js,
                                            now, FALSE)} :
                 /\ Commit(next)
                 /\ UNCHANGED <<now, firstReveal, pressTimers>>

(* the reset button *)
Reset ==
    \E next \in {resetTimerOnly(World, now)} :
        /\ Commit(next)
        /\ UNCHANGED <<now, firstReveal, pressTimers>>

(* the setInterval callback of an active timer *)
Tick ==
    \E id \in intervals :
      \E next \in {updateTimer(World, now)} :
        /\ Commit(next)
        /\ UNCHANGED <<now, firstReveal, pressTimers>>

(* The number of entries of the leaderboard, over all its keys. *)
RecordCount ==
    Cardinality(UNION {{<<key, i>> : i \in 1..Len(leaderboard[key])} :
                          key \in DOMAIN leaderboard})

(* the new-game button: startNewGame(getConfigFromUI()) *)
NewGameOn(configs) ==
    \E config \in configs :
      \E next \in {startNewGame(World, config, now)} :
        /\ Commit(next)
        /\ UNCHANGED <<now, firstReveal, pressTimers>>

(* The readings of the clock: Date.now() follows the system clock, which *)
(* may run past MaxElapsed seconds and may be set back.                  *)
ClockValues == {0, MsPerSecond + (MsPerSecond \div 2), (MaxElapsed + 1) * MsPerSecond}

(* Time passes, or the system clock is set, between two handlers. *)
Advance ==
    /\ \E clock \in ClockValues \ {now} : now' = clock
    /\ UNCHANGED <<state, leaderboard, storage, intervals, settings, tone,
                   firstReveal, pressTimers>>

(* One session, from its start to its end, at one reading of the clock: *)
(* what the timer shows as time passes is explored apart from it.       *)
Next == Reveal \/ Flag \/ Hint \/ Reset \/ Tick

Spec == Init /\ [][Next]_vars

----------------------------------------------------------------------------
(* The timer: sessions on the smallest boards that keep a session running, *)
(* with the clock moving between the handlers and new games started until  *)
(* MaxWins wins are recorded.                                             *)

TimerConfigs ==
    {[rows |-> 1, cols |-> 3, mines |-> 1], [rows |-> 2, cols |-> 2, mines |-> 1]}

InitTimer ==
    /\ \E config \in TimerConfigs : state = createInitialState(config)
    /\ leaderboard = EmptyStore
    /\ storage = NULL
    /\ intervals = {}
    /\ settings = [nickname |-> DEFAULT_NICKNAME]
    /\ tone = "ready"
    /\ now \in ClockValues
    /\ firstReveal = NULL
    /\ pressTimers = <<>>

NewGame ==
    /\ RecordCount < MaxWins
    /\ NewGameOn(TimerConfigs)

NextTimer == Reveal \/ Flag \/ Hint \/ Reset \/ Tick \/ Advance \/ NewGame

SpecTimer == InitTimer /\ [][NextTimer]_vars

----------------------------------------------------------------------------
(* The leaderboard: page loads over what storage may hold, then sessions, *)
(* wins and clears, with new games and reloads until MaxWins entries are  *)
(* held.                                                                  *)

(* The boards of the sessions: one that the first reveal wins, and one *)
(* that takes two reveals.                                            *)
BoardConfigs ==
    {[rows |-> 1, cols |-> 2, mines |-> 1], [rows |-> 1, cols |-> 3, mines |-> 1]}

(* The board init() starts with: the page selects 'medium' on every load. *)
LoadConfig == [rows |-> 1, cols |-> 3, mines |-> 1]

BoardKey == getConfigKey(LoadConfig)

StoredEntry(name, time) ==
    JsonObject([name |-> JsonString(name), time |-> JsonNumber(time)])

(* What the page may find stored: nothing, a legacy list of times, more  *)
(* than LEADERBOARD_LIMIT entries out of order, a full list of equal     *)
(* times, and keys with nothing valid beside a valid one.                *)
StoredPayloads ==
    {NULL,
     Some(JsonObject(BoardKey :> JsonArray(
        <<JsonNumber(MaxElapsed), JsonString(<<"1">>), JsonNumber(MaxElapsed + 1)>>))),
     Some(JsonObject(BoardKey :> JsonArray(
        <<StoredEntry(<<"A">>, MaxElapsed), StoredEntry(<<"B">>, 1),
          StoredEntry(<<"C">>, MaxElapsed - 1), StoredEntry(<<"D">>, 1),
          StoredEntry(<<"E">>, 0), StoredEntry(<<"F">>, 2)>>))),
     Some(JsonObject(BoardKey :> JsonArray(
        <<StoredEntry(<<"A">>, 0), StoredEntry(<<"B">>, 0), StoredEntry(<<"C">>, 0),
          StoredEntry(<<"D">>, 0), StoredEntry(<<"E">>, 0)>>))),
     Some(JsonObject(BoardKey :> JsonArray(<<JsonNull, StoredEntry(<<"A">>, 0 - 1)>>)
                     @@ "9x9-10" :> JsonArray(<<StoredEntry(<<"A">>, 2)>>)
                     @@ "16x16-40" :> JsonNumber(3)))}

(* The page loads: the module reads the leaderboard, init() starts a game. *)
PageLoad(stored, readOk, writeOk, clock) ==
    LET blank == [state |-> createInitialState(LoadConfig),
                  leaderboard |-> EmptyStore,
                  storage |-> stored,
                  intervals |-> {},
                  settings |-> [nickname |-> DEFAULT_NICKNAME],
                  tone |-> "ready"]
        loaded == loadLeaderboard(blank, readOk, writeOk)
    IN  startNewGame([loaded.w EXCEPT !.leaderboard = loaded.store], LoadConfig,
                     clock)

InitBoard ==
    /\ now = 0
    /\ firstReveal = NULL
    /\ pressTimers = <<>>
    /\ \E stored \in StoredPayloads, readOk \in BOOLEAN, writeOk \in BOOLEAN :
         \E loaded \in {PageLoad(stored, readOk, writeOk, 0)} :
           /\ state = loaded.state
           /\ leaderboard = loaded.leaderboard
           /\ storage = loaded.storage
           /\ intervals = loaded.intervals
           /\ settings = loaded.settings
           /\ tone = loaded.tone

(* The page is loaded again: the timers of the old page are gone. *)
Reload ==
    /\ RecordCount < MaxWins
    /\ \E readOk \in BOOLEAN :
         \E done \in {PageLoad(storage, readOk, TRUE, now)} :
           \E writeOk \in WriteOutcomes(done) :
             \E next \in {IF writeOk THEN done
                          ELSE PageLoad(storage, readOk, FALSE, now)} :
               /\ Commit(next)
               /\ UNCHANGED <<now, firstReveal, pressTimers>>

(* the clear-records button *)
Clear ==
    \E writeOk \in BOOLEAN :
      \E next \in {clearRecords(World, writeOk)} :
        /\ Commit(next)
        /\ UNCHANGED <<now, firstReveal, pressTimers>>

NewBoardGame ==
    /\ RecordCount < MaxWins
    /\ NewGameOn(BoardConfigs)

NextBoard ==
    Reveal \/ Flag \/ Hint \/ Reset \/ Tick \/ NewBoardGame \/ Clear \/ Reload

SpecBoard == InitBoard /\ [][NextBoard]_vars

----------------------------------------------------------------------------
(* Mine placement alone: the first reveal of a fresh session, under every *)
(* sequence of draws the shuffle can make.                                *)

----------------------------------------------------------------------------
(* Loading alone: page loads over every short list of items that storage *)
(* may hold under a key, and over payloads that are not a store at all.  *)

LoadListLen == 2

(* What a stored list may hold: times as numbers and as text, in range,  *)
(* out of range and fractional; values that are no entry; entries with   *)
(* names to keep, to trim, to cut (one of them at a space) and to       *)
(* replace, and with times of other types.                               *)
LoadItems ==
    {JsonNumber(30), JsonNumber(7), JsonNumber(MaxElapsed + 1), JsonNumber(0 - 1),
     JsonHalf(MaxElapsed), JsonHalf(0 - 1), JsonHalf(7),
     JsonString(<<"4", "5">>), JsonString(<<"a">>),
     JsonNull, JsonBoolean(TRUE), JsonArray(<<JsonNumber(3)>>),
     StoredEntry(<<"A">>, 5), StoredEntry(<<"B">>, 30),
     StoredEntry(<<"A">>, MaxElapsed + 1),
     StoredEntry(<<" ", "C", " ">>, 8),
     StoredEntry(<<"a", "b", "c", "d", "e", "f", "g", "h", "i", "j", "k", "l", "m">>, 9),
     StoredEntry(<<"n", "o", "p", "q", "r", "s", "t", "u", "v", "w", "x", " ", "y">>, 3),
     StoredEntry(<<" ">>, 6),
     JsonObject([time |-> JsonNumber(4)]),
     JsonObject([name |-> JsonString(<<"D">>), time |-> JsonString(<<"1", "2">>)]),
     JsonObject([name |-> JsonString(<<"E">>), time |-> JsonNull]),
     JsonObject([name |-> JsonString(<<"F">>), time |-> JsonHalf(MaxElapsed)]),
     JsonObject([name |-> JsonString(<<"G">>)])}

LoadLists == UNION {[1..n -> LoadItems] : n \in 0..LoadListLen}

(* A legacy list longer than LEADERBOARD_LIMIT, out of order. *)
LongLegacyList ==
    <<JsonNumber(30), JsonNumber(7), JsonNumber(MaxElapsed), JsonNumber(0),
      JsonNumber(7), JsonNumber(12), JsonNumber(1)>>

LoadPayloads ==
    StoredPayloads
    \cup {Some(Unparsable), Some(JsonNull), Some(JsonNumber(3)),
          Some(JsonString(<<"x">>)), Some(JsonBoolean(TRUE)),
          Some(JsonArray(<<>>)),
          Some(JsonArray(<<JsonArray(<<JsonNumber(30)>>)>>)),
          Some(JsonObject(BoardKey :> JsonArray(LongLegacyList)))}
    \cup {Some(JsonObject(BoardKey :> JsonArray(items))) : items \in LoadLists}

InitLoad ==
    /\ now = 0
    /\ firstReveal = NULL
    /\ pressTimers = <<>>
    /\ \E stored \in LoadPayloads, readOk \in BOOLEAN, writeOk \in BOOLEAN :
         \E loaded \in {PageLoad(stored, readOk, writeOk, 0)} :
           /\ state = loaded.state
           /\ leaderboard = loaded.leaderboard
           /\ storage = loaded.storage
           /\ intervals = loaded.intervals
           /\ settings = loaded.settings
           /\ tone = loaded.tone

(* The page is loaded again over what storage holds now. *)
Load ==
    \E readOk \in BOOLEAN, writeOk \in BOOLEAN :
      \E next \in {PageLoad(storage, readOk, writeOk, now)} :
        /\ Commit(next)
        /\ UNCHANGED <<now, firstReveal, pressTimers>>

NextLoad == Load

SpecLoad == InitLoad /\ [][NextLoad]_vars

----------------------------------------------------------------------------
(* Flood opening alone: reveals and flags on boards long or wide enough *)
(* for a region of zero cells that a flag cuts in two.                  *)

FloodConfigs ==
    {[rows |-> 1, cols |-> 4, mines |-> 1], [rows |-> 1, cols |-> 5, mines |-> 1],
     [rows |-> 2, cols |-> 3, mines |-> 1], [rows |-> 2, cols |-> 4, mines |-> 1]}

InitFlood ==
    /\ \E config \in FloodConfigs : state = createInitialState(config)
    /\ leaderboard = EmptyStore
    /\ storage = NULL
    /\ intervals = {}
    /\ settings = [nickname |-> DEFAULT_NICKNAME]
    /\ tone = "ready"
    /\ now = 0
    /\ firstReveal = NULL
    /\ pressTimers = <<>>

NextFlood == Reveal \/ Flag

SpecFlood == InitFlood /\ [][NextFlood]_vars

----------------------------------------------------------------------------
(* The configuration alone: new games from what the difficulty select and *)
(* the three custom inputs may hold.                                      *)

difficulties ==
    [easy |-> [rows |-> 9, cols |-> 9, mines |-> 10],
     medium |-> [rows |-> 16, cols |-> 16, mines |-> 40],
     hard |-> [rows |-> 16, cols |-> 30, mines |-> 99]]

(* Number(text || fallback) for the text of an input that is empty or a *)
(* decimal integer, with or without sign; other texts are outside the   *)
(* inputs explored.                                                     *)
NumberOr(text, fallback) ==
    IF text = <<>> THEN fallback
    ELSE IF Head(text) = "-" THEN 0 - DigitsValue(Tail(text))
    ELSE DigitsValue(text)

(* getConfigFromUI with the maximum of mines one too high. *)
getConfigFromUI_MinesFillBoard(selected, colsText, rowsText, minesText) ==
    IF selected # "custom" THEN difficulties[selected]
    ELSE LET cols == clamp(NumberOr(colsText, 12), 6, 40)
             rows == clamp(NumberOr(rowsText, 12), 6, 30)
             maxMines == rows * cols
             mines == clamp(NumberOr(minesText, 10), 1, maxMines)
         IN  [rows |-> rows, cols |-> cols, mines |-> mines]

(* getConfigFromUI: selected is difficultyEl.value, the texts are the *)
(* values of the custom inputs.                                       *)
getConfigFromUI(selected, colsText, rowsText, minesText) ==
    IF selected # "custom" THEN difficulties[selected]
    ELSE LET cols == clamp(NumberOr(colsText, 12), 6, 40)
             rows == clamp(NumberOr(rowsText, 12), 6, 30)
             maxMines == rows * cols - 1
             mines == clamp(NumberOr(minesText, 10), 1, maxMines)
         IN  [rows |-> rows, cols |-> cols, mines |-> mines]

DifficultyKeys == {"easy", "medium", "hard", "custom"}

(* Texts of the size inputs: empty, below, at and above the limits. *)
SizeTexts ==
    {<<>>, <<"-", "1">>, <<"0">>, <<"5">>, <<"6">>, <<"7">>, <<"2", "9">>,
     <<"3", "0">>, <<"3", "1">>, <<"4", "0">>, <<"4", "1">>}

(* Texts of the mines input: empty, below 1, and around the number of *)
(* cells of the smallest, a middle and the largest board.             *)
MinesTexts ==
    {<<>>, <<"-", "1">>, <<"0">>, <<"1">>, <<"3", "5">>, <<"3", "6">>,
     <<"1", "4", "3">>, <<"1", "4", "4">>, <<"1", "1", "9", "9">>,
     <<"1", "2", "0", "0">>, <<"5", "0", "0", "0">>}

(* What getConfigFromUI returns for selected over all the texts. *)
UIConfigs(selected) ==
    {getConfigFromUI(selected, colsText, rowsText, minesText) :
        colsText \in SizeTexts, rowsText \in SizeTexts, minesText \in MinesTexts}

(* init(): difficultyEl.value = 'medium'; startNewGame(getConfigFromUI()) *)
InitConfig ==
    /\ \E config \in UIConfigs("medium") : state = createInitialState(config)
    /\ leaderboard = EmptyStore
    /\ storage = NULL
    /\ intervals = {}
    /\ settings = [nickname |-> DEFAULT_NICKNAME]
    /\ tone = "ready"
    /\ now = 0
    /\ firstReveal = NULL
    /\ pressTimers = <<>>

(* the new-game button: startNewGame(getConfigFromUI()) *)
NewGameFromUI ==
    \E selected \in DifficultyKeys :
      \E config \in UIConfigs(selected) :
        \E next \in {startNewGame(World, config, now)} :
          /\ Commit(next)
          /\ UNCHANGED <<now, firstReveal, pressTimers>>

NextConfig == NewGameFromUI

SpecConfig == InitConfig /\ [][NextConfig]_vars

----------------------------------------------------------------------------
(* Long presses: the timeouts startLongPress arms on the cells' elements, *)
(* across new games.                                                      *)

PressConfigs ==
    {[rows |-> 1, cols |-> 3, mines |-> 1], [rows |-> 2, cols |-> 2, mines |-> 1]}

InitPress ==
    /\ \E config \in PressConfigs : state = createInitialState(config)
    /\ leaderboard = EmptyStore
    /\ storage = NULL
    /\ intervals = {}
    /\ settings = [nickname |-> DEFAULT_NICKNAME]
    /\ tone = "ready"
    /\ now = 0
    /\ firstReveal = NULL
    /\ pressTimers = <<>>

(* The callback of startLongPress's timeout, lines 310-313, with the row  *)
(* and col its closure holds: the mark on the element, then toggleFlag on *)
(* the global session.  Past the game-over test, state.board[row][col] of *)
(* a coordinate outside the board reads a property of undefined: the      *)
(* TypeError ends the callback with nothing changed.                      *)
LongPressCallback(w, row, col) ==
    IF w.state.isGameOver THEN w
    ELSE IF ~InBounds(w.state.config.rows, w.state.config.cols, row, col) THEN w
         ELSE toggleFlag(w, row, col)

(* pressTimers without its i-th element. *)
WithoutPress(i) ==
    SubSeq(pressTimers, 1, i - 1) \o SubSeq(pressTimers, i + 1, Len(pressTimers))

(* pointerdown or touchstart on a cell of the board: startLongPress.  An *)
(* element whose dataset.pressTimer is set arms nothing.                 *)
Press ==
    /\ Len(pressTimers) < MaxPress
    /\ \E row \in Rows, col \in Cols :
         /\ \A i \in DOMAIN pressTimers :
              ~(/\ pressTimers[i].row = row
                /\ pressTimers[i].col = col
                /\ ~pressTimers[i].detached)
         /\ pressTimers' = Append(pressTimers,
               [row |-> row, col |-> col, detached |-> FALSE, fired |-> FALSE])
    /\ UNCHANGED <<state, leaderboard, storage, intervals, settings, tone, now,
                   firstReveal>>

(* pointerup, touchend and the like on an element that was pressed:     *)
(* cancelPress clears the timeout and deletes dataset.pressTimer.  The  *)
(* touch events of a touch go to the element it started on, in the page *)
(* or not.                                                              *)
ReleasePress ==
    /\ \E i \in DOMAIN pressTimers : pressTimers' = WithoutPress(i)
    /\ UNCHANGED <<state, leaderboard, storage, intervals, settings, tone, now,
                   firstReveal>>

(* 420 ms after a press that was not released: the timeout runs. *)
FirePress ==
    \E i \in DOMAIN pressTimers :
      /\ ~pressTimers[i].fired
      /\ \E next \in {LongPressCallback(World, pressTimers[i].row,
                                        pressTimers[i].col)} :
           Commit(next)
      /\ pressTimers' = [pressTimers EXCEPT ![i].fired = TRUE]
      /\ UNCHANGED <<now, firstReveal>>

(* The new-game button: startNewGame, whose buildBoardElements empties *)
(* the board element and makes new cells; the timeouts of the old      *)
(* elements are not cleared.  The leaderboard bounds the number of wins. *)
PressNewGame ==
    /\ RecordCount < MaxWins
    /\ \E config \in PressConfigs :
         \E next \in {startNewGame(World, config, now)} :
           /\ Commit(next)
           /\ pressTimers' = [i \in DOMAIN pressTimers |->
                                 [pressTimers[i] EXCEPT !.detached = TRUE]]
           /\ UNCHANGED <<now, firstReveal>>

NextPress == Press \/ ReleasePress \/ FirePress \/ PressNewGame \/ Reveal

SpecPress == InitPress /\ [][NextPress]_vars

FirstReveal ==
    /\ ~state.minesPlaced
    /\ \E row \in Rows, col \in Cols :
         \E js \in AllDraws(row, col) :
           \E next \in {handleCellClick(World, row, col, js, now, TRUE)} :
             /\ Commit(next)
             /\ firstReveal' = Some(<<row, col>>)
             /\ UNCHANGED <<now, pressTimers>>

NextPlace == FirstReveal

SpecPlace == Init /\ [][NextPlace]_vars

----------------------------------------------------------------------------
(* The shuffle's reduction: for every first reveal, the draws explored in *)
(* Spec produce every mine set that some sequence of draws produces.      *)

MineSetOf(positions, mines, js) ==
    LET shuffled == FisherYates(positions, Len(positions) - 1, js)
    IN  {shuffled[i] : i \in 1..mines}

DrawsCovered ==
    \A row \in Rows, col \in Cols :
        ~state.minesPlaced =>
            {MineSetOf(Candidates(row, col), state.config.mines, js) :
                js \in AllDraws(row, col)}
            = {MineSetOf(Candidates(row, col), state.config.mines, js) :
                js \in ShuffleDraws(row, col)}

----------------------------------------------------------------------------
(* Vocabulary of the properties *)

Abs(x) == IF x < 0 THEN 0 - x ELSE x

Cells == Rows \X Cols

CellAt(p) == state.board[p[1]][p[2]]

(* p and q are the same cell or touch, by side or by corner. *)
Touches(p, q) == Abs(p[1] - q[1]) <= 1 /\ Abs(p[2] - q[2]) <= 1

(* The cell of the first reveal and its neighbours on the board. *)
Neighbourhood(p) == {q \in Cells : Touches(p, q)}

MineCells == {p \in Cells : CellAt(p).isMine}

SafeCellCount == state.config.rows * state.config.cols - state.config.mines

(* The 3x3 block around p leaves room for all the mines. *)
RoomOutside(p) ==
    state.config.rows * state.config.cols - Cardinality(Neighbourhood(p))
        >= state.config.mines

----------------------------------------------------------------------------
(* C1: whenever the cells outside the clipped 3x3 block of the first      *)
(* reveal can hold all the mines, mine placement leaves the revealed cell *)
(* and each of its neighbours on the board without a mine.                *)
C1_NeighbourhoodMineFree ==
    (firstReveal # NULL /\ RoomOutside(Val(firstReveal))) =>
        \A q \in Neighbourhood(Val(firstReveal)) : ~CellAt(q).isMine

(* A first reveal in a corner of a board that has mines elsewhere. *)
C1_Witness ==
    /\ firstReveal # NULL
    /\ state.minesPlaced
    /\ RoomOutside(Val(firstReveal))
    /\ Cardinality(Neighbourhood(Val(firstReveal))) = 4
    /\ Cardinality(MineCells) = 2

(* C2: mine placement puts exactly `mines` mines on distinct cells and    *)
(* never one on the cell of the first reveal, also when the 3x3 block     *)
(* leaves too few cells and only the revealed cell is kept free.          *)
C2_ExactlyMinesFirstCellFree ==
    firstReveal # NULL =>
        /\ state.minesPlaced
        /\ Cardinality(MineCells) = state.config.mines
        /\ ~CellAt(Val(firstReveal)).isMine

(* The fallback: mines in the block around the first reveal. *)
C2_Witness ==
    /\ firstReveal # NULL
    /\ ~RoomOutside(Val(firstReveal))
    /\ Cardinality(MineCells) = state.config.mines
    /\ \E q \in Neighbourhood(Val(firstReveal)) : CellAt(q).isMine

(* The mines among the other cells that touch p, counted over the board. *)
ReferenceCount(p) ==
    Cardinality({q \in MineCells : q # p /\ Touches(p, q)})

(* C3: after mine placement, `adjacent` of every cell without a mine is *)
(* the number of mines among its neighbours on the board.               *)
C3_AdjacentIsMineCount ==
    state.minesPlaced =>
        \A p \in Cells : ~CellAt(p).isMine => CellAt(p).adjacent = ReferenceCount(p)

(* A cell that counts a mine across a corner and another one. *)
C3_Witness ==
    /\ state.minesPlaced
    /\ \E p \in Cells :
         /\ ~CellAt(p).isMine
         /\ CellAt(p).adjacent >= 2
         /\ \E q \in MineCells : Abs(p[1] - q[1]) = 1 /\ Abs(p[2] - q[2]) = 1

----------------------------------------------------------------------------
(* Session status *)

Won == state.isGameOver /\ state.didWin

Lost == state.isGameOver /\ ~state.didWin

Status ==
    IF state.isGameOver THEN (IF state.didWin THEN "WON" ELSE "LOST")
    ELSE IF state.minesPlaced THEN "PLAYING" ELSE "READY"

(* The tone the status line shows for a status. *)
ToneOf(status) ==
    CASE status = "READY" -> "ready"
      [] status = "PLAYING" -> "playing"
      [] status = "WON" -> "win"
      [] status = "LOST" -> "lose"

AllSafeOpen == \A p \in Cells : ~CellAt(p).isMine => CellAt(p).isOpen

NoMineOpen == \A p \in MineCells : ~CellAt(p).isOpen

(* The cell of world w at p, and whether w is a lost session. *)
CellIn(w, p) == w.state.board[p[1]][p[2]]

LostIn(w) == w.state.isGameOver /\ ~w.state.didWin

(* No draws: what a reveal draws once the mines are placed. *)
NoDraws == <<>>

----------------------------------------------------------------------------
(* C4: whatever the order of reveals, flags, hints, resets and ticks, the *)
(* session is WON exactly when every cell without a mine is open and no   *)
(* mine is: never while a safe cell is closed, at once when the last one  *)
(* opens, and the win is recorded exactly once.                           *)
C4_WonIffAllSafeOpen ==
    /\ Won <=> (AllSafeOpen /\ NoMineOpen)
    /\ Won <=> (tone = "win")
    /\ RecordCount = (IF Won THEN 1 ELSE 0)

(* A win after several reveals, with a flag standing and a hint taken. *)
C4_Witness ==
    /\ Won
    /\ state.openCount >= 3
    /\ state.flags >= 1
    /\ state.hintsUsed >= 1
    /\ state.config.mines >= 2

(* C5: revealing an unflagged mine of a session that is not over loses    *)
(* the game in that operation; afterwards every mine is open, every       *)
(* flagged cell without a mine is open and marked as a wrong flag, and    *)
(* every other cell is as it was.                                         *)
C5_MineRevealLoses ==
    \A p \in Cells :
        (~state.isGameOver /\ CellAt(p).isMine /\ ~CellAt(p).isFlagged) =>
            LET after == handleCellClick(World, p[1], p[2], NoDraws, now, TRUE)
            IN  /\ LostIn(after)
                /\ after.tone = "lose"
                /\ \A q \in Cells :
                     IF CellAt(q).isMine THEN CellIn(after, q).isOpen
                     ELSE IF CellAt(q).isFlagged
                          THEN CellIn(after, q).isOpen /\ CellIn(after, q).isWrongFlag
                          ELSE CellIn(after, q) = CellAt(q)

(* A lost session with a wrong flag, a flagged mine, and a safe cell that *)
(* stayed closed.                                                         *)
C5_Witness ==
    /\ Lost
    /\ \E q \in Cells : CellAt(q).isWrongFlag /\ CellAt(q).isOpen
    /\ \E q \in Cells : CellAt(q).isMine /\ CellAt(q).isFlagged /\ CellAt(q).isOpen
    /\ \E q \in Cells : ~CellAt(q).isMine /\ ~CellAt(q).isOpen

(* C6: once the session is WON or LOST, a reveal, a flag toggle and a hint *)
(* change nothing, at any cell: not the session, the timer, the status     *)
(* line, the leaderboard or what is stored.                               *)
C6_TerminalRejects ==
    state.isGameOver =>
        \A p \in Cells, writeOk \in BOOLEAN :
            /\ handleCellClick(World, p[1], p[2], NoDraws, now, writeOk) = World
            /\ toggleFlag(World, p[1], p[2]) = World
            /\ \A rnd \in RandomBelow(Len(HintPool(state))) :
                 handleHint(World, p[1], p[2], rnd, NoDraws, now, writeOk) = World

(* A session that is over and still has a safe cell to reveal, to flag or *)
(* to hint at.                                                            *)
C6_Witness ==
    /\ state.isGameOver
    /\ Len(HintPool(state)) >= 1
    /\ state.flags >= 1

(* The steps of the status the state machine READY -> PLAYING -> WON / LOST *)
(* names.                                                                 *)
StatusSteps ==
    {<<"READY", "PLAYING">>, <<"PLAYING", "WON">>, <<"PLAYING", "LOST">>}

(* C7 as stated: within a session the status changes only by READY ->     *)
(* PLAYING, PLAYING -> WON and PLAYING -> LOST, so that no operation takes *)
(* a READY session to WON or LOST.                                        *)
C7_OnlyThreeSteps ==
    [][Status' = Status \/ <<Status, Status'>> \in StatusSteps]_vars

(* C7, amended: within a session the status changes only by READY ->      *)
(* PLAYING, PLAYING -> WON, PLAYING -> LOST, and READY -> WON when the     *)
(* first reveal opens every safe cell; no operation takes READY to LOST,  *)
(* WON and LOST are never left, PLAYING never returns to READY, and the   *)
(* status line shows the status.                                          *)
C7_StatusSteps ==
    [][/\ \/ Status' = Status
          \/ <<Status, Status'>> \in StatusSteps \cup {<<"READY", "WON">>}
       /\ tone' = ToneOf(Status')]_vars

(* A board with one safe cell, won by its first reveal. *)
C7_Witness ==
    /\ Status = "WON"
    /\ state.config.mines = state.config.rows * state.config.cols - 1
    /\ state.openCount = 1

(* C8: while the session is READY, PLAYING or WON no cell is both open and *)
(* flagged; a cell is open and flagged only in a LOST session, where the  *)
(* end-of-game reveal opened it.                                          *)
C8_OpenAndFlaggedOnlyLost ==
    \A p \in Cells :
        (CellAt(p).isOpen /\ CellAt(p).isFlagged) =>
            (Lost /\ (CellAt(p).isMine \/ CellAt(p).isWrongFlag))

(* A running session with a flag next to an opened cell. *)
C8_Witness ==
    /\ Status = "PLAYING"
    /\ \E p \in Cells, q \in Cells :
         /\ p # q /\ Touches(p, q)
         /\ CellAt(p).isFlagged /\ ~CellAt(p).isOpen
         /\ CellAt(q).isOpen /\ ~CellAt(q).isFlagged

(* C9: a reveal that does not lose the game leaves every flagged cell     *)
(* flagged and closed, and opens no mine, be it the revealed cell or one   *)
(* the flood reaches.                                                     *)
C9_RevealKeepsFlagsAndMines ==
    \A p \in Cells :
      \A js \in ShuffleDraws(p[1], p[2]) :
        LET after == handleCellClick(World, p[1], p[2], js, now, TRUE)
        IN  ~LostIn(after) =>
              \A q \in Cells :
                /\ CellAt(q).isFlagged =>
                     (CellIn(after, q).isFlagged /\ ~CellIn(after, q).isOpen)
                /\ CellIn(after, q).isMine => ~CellIn(after, q).isOpen

(* A flagged safe cell that the flood passed: it is closed beside an open *)
(* cell with no mine around.                                              *)
C9_Witness ==
    /\ ~state.isGameOver
    /\ \E p \in Cells, q \in Cells :
         /\ p # q /\ Touches(p, q)
         /\ CellAt(p).isFlagged /\ ~CellAt(p).isOpen /\ ~CellAt(p).isMine
         /\ CellAt(q).isOpen /\ CellAt(q).adjacent = 0

(* C10: revealing an open cell changes nothing, and revealing any cell a *)
(* second time changes nothing more than the first reveal did.           *)
C10_RevealIsIdempotent ==
    \A p \in Cells :
        /\ CellAt(p).isOpen =>
             \A writeOk \in BOOLEAN :
               handleCellClick(World, p[1], p[2], NoDraws, now, writeOk) = World
        /\ \A js \in ShuffleDraws(p[1], p[2]) :
             LET once == handleCellClick(World, p[1], p[2], js, now, TRUE)
             IN  handleCellClick(once, p[1], p[2], NoDraws, now, TRUE) = once

(* A running session with a flooded region: an open cell with no mine *)
(* around, and its neighbours open.                                   *)
C10_Witness ==
    /\ Status = "PLAYING"
    /\ state.openCount >= 3
    /\ \E p \in Cells :
         /\ CellAt(p).isOpen /\ CellAt(p).adjacent = 0
         /\ \A q \in Neighbourhood(p) : CellAt(q).isOpen

----------------------------------------------------------------------------
(* Flags and hints *)

FlaggedCells == {p \in Cells : CellAt(p).isFlagged}

(* The cells a hint may show: closed, unflagged and without a mine. *)
HintableCells ==
    {p \in Cells : ~CellAt(p).isOpen /\ ~CellAt(p).isFlagged /\ ~CellAt(p).isMine}

(* C11: the flag counter is the number of flagged cells, between 0 and the *)
(* number of cells; a flag toggle changes nothing on an open cell, and on  *)
(* a closed cell of a session that is not over it flips the flag of that   *)
(* cell alone, moves the counter by one in the same direction, and a       *)
(* second toggle of the cell restores the state.                           *)
C11_FlagCounter ==
    /\ state.flags = Cardinality(FlaggedCells)
    /\ state.flags \in 0..(state.config.rows * state.config.cols)
    /\ \A p \in Cells :
         LET after == toggleFlag(World, p[1], p[2])
         IN  /\ CellAt(p).isOpen => after = World
             /\ (~CellAt(p).isOpen /\ ~state.isGameOver) =>
                  /\ CellIn(after, p).isFlagged = ~CellAt(p).isFlagged
                  /\ after.state.flags =
                       (IF CellAt(p).isFlagged THEN state.flags - 1
                        ELSE state.flags + 1)
                  /\ \A q \in Cells \ {p} : CellIn(after, q) = CellAt(q)
                  /\ toggleFlag(after, p[1], p[2]) = World

(* A running session with two flags standing, an open cell, and a closed *)
(* cell without a flag.                                                  *)
C11_Witness ==
    /\ Status = "PLAYING"
    /\ state.flags >= 2
    /\ \E p \in Cells : CellAt(p).isOpen
    /\ \E p \in Cells : ~CellAt(p).isOpen /\ ~CellAt(p).isFlagged

(* C12: a cell that findHintCell returns is closed, unflagged and has no  *)
(* mine, and it has no mine around whenever some closed, unflagged cell   *)
(* without a mine has none around.                                        *)
C12_HintCellIsSafe ==
    \A rnd \in RandomBelow(Len(HintPool(state))) :
        LET hint == findHintCell(World, rnd)
        IN  hint # NULL =>
              /\ Val(hint) \in HintableCells
              /\ (\E q \in HintableCells : CellAt(q).adjacent = 0) =>
                    CellAt(Val(hint)).adjacent = 0

(* A hint taken while a cell with no mine around and a cell beside a mine *)
(* are both left to show.                                                 *)
C12_Witness ==
    /\ Status = "PLAYING"
    /\ state.hintsUsed >= 1
    /\ \E q \in HintableCells : CellAt(q).adjacent = 0
    /\ \E q \in HintableCells : CellAt(q).adjacent # 0

(* C13 as stated: a hint taken while no mines are placed, whatever flags *)
(* were set before, performs the first reveal: after it the mines are    *)
(* placed, the timer has been started, a cell is open and the session is *)
(* not READY any more.                                                   *)
C13_OpeningHintReveals ==
    [][(~state.minesPlaced /\ state'.hintsUsed = state.hintsUsed + 1) =>
          /\ state'.minesPlaced
          /\ state'.startTime # NULL
          /\ state'.openCount >= 1
          /\ Status' # "READY"]_vars

(* The hints that handleHint counts: the opening hint, and a hint that *)
(* finds a cell to show.                                               *)
HintCounts == ~state.isGameOver /\ (~state.minesPlaced \/ HintableCells # {})

----------------------------------------------------------------------------
(* The timer *)

(* The seconds from the anchor to the reading clock of the clock, as the *)
(* display shows them: whole seconds, none before the anchor, at most    *)
(* MaxElapsed.                                                           *)
SecondsSince(anchor, clock) ==
    IF clock < anchor THEN 0
    ELSE IF clock - anchor >= (MaxElapsed + 1) * MsPerSecond THEN MaxElapsed
         ELSE CHOOSE s \in 0..MaxElapsed :
                s * MsPerSecond <= clock - anchor
                /\ clock - anchor < (s + 1) * MsPerSecond

(* C15: the periodic tick is active exactly while the session is PLAYING, *)
(* and never more than one: it is started by the reveal that takes the    *)
(* session from READY to PLAYING and by nothing else, it is cancelled when *)
(* the session is won or lost and when a new game starts, starting a       *)
(* started timer and stopping a stopped one change nothing.               *)
C15_TickIffPlaying ==
    /\ [](/\ (intervals # {}) <=> (Status = "PLAYING")
          /\ intervals = (IF state.timerId = NULL THEN {} ELSE {Val(state.timerId)})
          /\ state.timerId = NULL => stopTimer(World) = World
          /\ state.timerId # NULL => startTimer(World, now) = World
          /\ stopTimer(stopTimer(World)) = stopTimer(World)
          /\ stopTimer(World).intervals = {})
    /\ [][intervals' # intervals =>
            \/ /\ intervals = {}
               /\ Status = "READY" /\ Status' = "PLAYING"
               /\ state'.openCount >= 1
               /\ state'.startTime = Some(now)
            \/ /\ intervals' = {}
               /\ Status = "PLAYING" /\ Status' \in {"WON", "LOST", "READY"}]_vars

(* A session won after the timer ran and ticked: the tick is cancelled. *)
C15_Witness ==
    /\ Status = "WON"
    /\ intervals = {}
    /\ state.startTime # NULL
    /\ state.elapsed >= 1

(* C16: elapsed is a whole number of seconds from 0 to 999 in every state, *)
(* whatever the clock does; a tick of the running timer sets it to the     *)
(* whole seconds from startTime to now, 0 when the clock is behind         *)
(* startTime and 999 from 1000 seconds on.                                 *)
C16_ElapsedInRange ==
    /\ state.elapsed \in 0..MaxElapsed
    /\ intervals # {} =>
         /\ state.startTime # NULL
         /\ \A clock \in ClockValues :
              updateTimer(World, clock).state.elapsed
                  = SecondsSince(Val(state.startTime), clock)

(* The timer runs and shows 999 while the clock is 1000 seconds past the *)
(* anchor.                                                               *)
C16_Witness ==
    /\ intervals # {}
    /\ state.elapsed = MaxElapsed
    /\ now - Val(state.startTime) >= (MaxElapsed + 1) * MsPerSecond

(* The times of the leaderboard's entries for the session's configuration. *)
TimesOf(store) ==
    LET records == RecordsOf(store, getConfigKey(state.config))
    IN  [i \in 1..Len(records) |-> records[i].time]

Occurrences(times, t) == Cardinality({i \in 1..Len(times) : times[i] = t})

(* The step adds one entry of time t for the session's configuration. *)
RecordsTime(t) ==
    LET old == TimesOf(leaderboard)
        new == TimesOf(leaderboard')
    IN  /\ Len(new) = Len(old) + 1
        /\ \A u \in {t} \cup {old[i] : i \in 1..Len(old)} \cup {new[i] : i \in 1..Len(new)} :
             Occurrences(new, u) = Occurrences(old, u) + (IF u = t THEN 1 ELSE 0)

(* C17 as stated: the time recorded by a win is the whole seconds from   *)
(* startTime to the clock at the winning reveal, clamped to [0, 999].    *)
C17_RecordedIsClockAtWin ==
    [][(~Won /\ Won') =>
          RecordsTime(SecondsSince(Val(state'.startTime), now))]_vars

(* C17, amended: the time recorded by a win is the session's elapsed at   *)
(* the winning reveal, which the reveal does not update: the value of the *)
(* last tick, 0 after a reset or when the first reveal wins; the clock is *)
(* not read when the session becomes WON.                                 *)
C17_RecordedIsElapsed ==
    [][(~Won /\ Won') =>
          /\ RecordsTime(state'.elapsed)
          /\ state'.elapsed = (IF state.minesPlaced THEN state.elapsed ELSE 0)]_vars

(* A win recorded with the seconds of the last tick, the clock being *)
(* further on.                                                       *)
C17_Witness ==
    /\ Won
    /\ state.startTime # NULL
    /\ state.elapsed >= 1
    /\ Occurrences(TimesOf(leaderboard), state.elapsed) = 1
    /\ SecondsSince(Val(state.startTime), now) # state.elapsed

(* C18: the reset button sets elapsed to 0 and leaves the board, flags,   *)
(* openCount, hintsUsed, minesPlaced, isGameOver, didWin and leaderboard  *)
(* as they are, in any state; a running timer keeps running, anchored at  *)
(* now, and a stopped one stays stopped.                                  *)
C18_ResetKeepsSession ==
    LET after == resetTimerOnly(World, now)
    IN  /\ after.state.elapsed = 0
        /\ after.state.board = state.board
        /\ after.state.flags = state.flags
        /\ after.state.openCount = state.openCount
        /\ after.state.hintsUsed = state.hintsUsed
        /\ after.state.minesPlaced = state.minesPlaced
        /\ after.state.isGameOver = state.isGameOver
        /\ after.state.didWin = state.didWin
        /\ after.leaderboard = leaderboard
        /\ after.state.timerId = state.timerId
        /\ after.intervals = intervals
        /\ state.timerId # NULL => after.state.startTime = Some(now)

(* A won session after a reset: the display is zeroed, the anchor gone, *)
(* the record kept.                                                     *)
C18_Witness ==
    /\ Won
    /\ state.elapsed = 0
    /\ state.startTime = NULL
    /\ \E i \in DOMAIN TimesOf(leaderboard) : TimesOf(leaderboard)[i] >= 1

----------------------------------------------------------------------------
(* The leaderboard *)

SessionKey == getConfigKey(state.config)

EntriesOf(records) == {records[i] : i \in 1..Len(records)}

EntryCount(records, entry) == Cardinality({i \in 1..Len(records) : records[i] = entry})

(* kept holds the LEADERBOARD_LIMIT smallest times of all, or all of them: *)
(* it takes its entries from all, and no entry left out is faster than    *)
(* one kept.                                                              *)
IsTopOf(kept, all) ==
    /\ Len(kept) = Min2(LEADERBOARD_LIMIT, Len(all))
    /\ \A entry \in EntriesOf(all) \cup EntriesOf(kept) :
         /\ EntryCount(kept, entry) <= EntryCount(all, entry)
         /\ EntryCount(kept, entry) < EntryCount(all, entry) =>
              \A i \in 1..Len(kept) : kept[i].time <= entry.time

(* C19: after page loads, wins and clears in any order every key of the   *)
(* leaderboard holds between 1 and 5 entries in ascending order of time,  *)
(* and a win leaves under the session's key the 5 fastest (or all) of the *)
(* entries it held and the new one.                                       *)
C19_KeysSortedTopFive ==
    /\ [](\A key \in DOMAIN leaderboard :
            /\ Len(leaderboard[key]) \in 1..LEADERBOARD_LIMIT
            /\ \A i \in 1..Len(leaderboard[key]), j \in 1..Len(leaderboard[key]) :
                 i < j => leaderboard[key][i].time <= leaderboard[key][j].time)
    /\ [][(~Won /\ Won') =>
            IsTopOf(RecordsOf(leaderboard', SessionKey),
                    Append(RecordsOf(leaderboard, SessionKey),
                           [name |-> settings.nickname, time |-> state'.elapsed]))]_vars

(* A win on a full list loaded out of order: the new entry stands behind *)
(* the loaded entry of the same time, and the slowest entries are gone.  *)
C19_Witness ==
    /\ Won
    /\ Len(RecordsOf(leaderboard, SessionKey)) = LEADERBOARD_LIMIT
    /\ leaderboard[SessionKey][1].name # settings.nickname
    /\ leaderboard[SessionKey][2] = [name |-> settings.nickname, time |-> state.elapsed]
    /\ leaderboard[SessionKey][LEADERBOARD_LIMIT].time > state.elapsed

(* C20: the leaderboard changes only when the session becomes WON, under  *)
(* the session's key and by one entry, and when the records are cleared;  *)
(* no reveal, flag, hint, reset, tick or new game that does not win, and  *)
(* no loss, changes it.  A page load reads it anew from storage.          *)
C20_OnlyWinsAndClear ==
    [][leaderboard' # leaderboard =>
          \/ /\ ~Won /\ Won'
             /\ DOMAIN leaderboard' = DOMAIN leaderboard \cup {SessionKey}
             /\ \A key \in DOMAIN leaderboard \ {SessionKey} :
                  leaderboard'[key] = leaderboard[key]
             /\ Len(leaderboard'[SessionKey])
                  <= Len(RecordsOf(leaderboard, SessionKey)) + 1
          \/ /\ leaderboard' = EmptyStore
             /\ state' = state
          \/ /\ state' = createInitialState(LoadConfig)
             /\ intervals' = {}
             /\ \E readOk \in BOOLEAN :
                  leaderboard' = loadLeaderboard(World, readOk, TRUE).store]_vars

(* A session lost after a hint, with flags set, while the leaderboard *)
(* holds what was loaded.                                             *)
C20_Witness ==
    /\ Lost
    /\ state.hintsUsed >= 1
    /\ state.flags >= 1
    /\ RecordCount >= 1

(* Configurations whose numbers share digits: with the separators left *)
(* out, or a field left out, some of them would share a key.           *)
KeyConfigs == [rows : {1, 2, 11, 12}, cols : {1, 2, 11, 12}, mines : {1, 2, 11, 12}]

KeysDiffer ==
    \A c1 \in KeyConfigs, c2 \in KeyConfigs :
        getConfigKey(c1) = getConfigKey(c2) => c1 = c2

(* C21: a win changes the leaderboard only under the key                *)
(* "{cols}x{rows}-{mines}" of the session's configuration: every other  *)
(* key stays, with the records it held; and two configurations have the *)
(* same key only if their cols, rows and mines are all equal.           *)
C21_WinWritesOwnKey ==
    /\ [](KeysDiffer /\ SessionKey = getConfigKey(state.config))
    /\ [][(~Won /\ Won') =>
            /\ DOMAIN leaderboard' \ {SessionKey} = DOMAIN leaderboard \ {SessionKey}
            /\ \A key \in DOMAIN leaderboard \ {SessionKey} :
                 leaderboard'[key] = leaderboard[key]]_vars

(* A win beside the records of another configuration. *)
C21_Witness ==
    /\ Won
    /\ SessionKey \in DOMAIN leaderboard
    /\ DOMAIN leaderboard \ {SessionKey} # {}

(* What a load of the stored payload returns and leaves stored. *)
Loaded(readOk, writeOk) == loadLeaderboard(World, readOk, writeOk)

(* The stored payload is no store: nothing, a text JSON.parse rejects, *)
(* null, a number, a string, a boolean or an array.                   *)
NoStoreStored == storage = NULL \/ Val(storage).type # "object"

IsStore(store) ==
    /\ DOMAIN store \subseteq STRING
    /\ \A key \in DOMAIN store :
         /\ DOMAIN store[key] = 1..Len(store[key])
         /\ \A i \in 1..Len(store[key]) : DOMAIN store[key][i] = {"name", "time"}

(* C22: loading returns a store whatever is stored and whether or not    *)
(* storage can be read and written; when storage cannot be read, or      *)
(* holds nothing, invalid JSON, a non-object (null, a number, a string)  *)
(* or an array, the store returned is empty and storage stays as it was. *)
C22_BadPayloadLoadsEmpty ==
    \A readOk \in BOOLEAN, writeOk \in BOOLEAN :
        /\ IsStore(Loaded(readOk, writeOk).store)
        /\ (~readOk \/ NoStoreStored) =>
              /\ Loaded(readOk, writeOk).store = EmptyStore
              /\ Loaded(readOk, writeOk).w = World

(* A page loaded over an array of legacy lists: the leaderboard is empty. *)
C22_Witness ==
    /\ storage # NULL
    /\ Val(storage).type = "array"
    /\ Len(Val(storage).items) > 0
    /\ leaderboard = EmptyStore
    /\ leaderboard = Loaded(TRUE, TRUE).store

(* The keys of the stored object that hold a list. *)
StoredLists ==
    IF NoStoreStored THEN {}
    ELSE {key \in DOMAIN Val(storage).members :
            Val(storage).members[key].type = "array"}

StoredItems(key) == Val(storage).members[key].items

(* A list as earlier versions stored it: whole seconds in 0..MaxElapsed. *)
IsLegacyList(items) ==
    /\ items # <<>>
    /\ \A i \in 1..Len(items) :
         /\ items[i].type = "number"
         /\ "half" \notin DOMAIN items[i]
         /\ items[i].num \in 0..MaxElapsed

IsAscending(records) ==
    \A i \in 1..Len(records), j \in 1..Len(records) :
        i < j => records[i].time <= records[j].time

(* C23: a key that holds a legacy list of in-range numeric times loads   *)
(* as one entry per time with the default name, in ascending order of    *)
(* time, the LEADERBOARD_LIMIT fastest of them (or all); the load marks  *)
(* the store as migrated: storage that can be written holds the store    *)
(* returned.                                                             *)
C23_LegacyListMigrates ==
    \A key \in StoredLists :
        IsLegacyList(StoredItems(key)) =>
            /\ key \in DOMAIN Loaded(TRUE, TRUE).store
            /\ IsTopOf(Loaded(TRUE, TRUE).store[key],
                       [i \in 1..Len(StoredItems(key)) |->
                           [name |-> DEFAULT_NICKNAME,
                            time |-> StoredItems(key)[i].num]])
            /\ IsAscending(Loaded(TRUE, TRUE).store[key])
            /\ Loaded(TRUE, TRUE).w.storage = Some(StoreToJson(Loaded(TRUE, TRUE).store))
            /\ Loaded(TRUE, FALSE).store = Loaded(TRUE, TRUE).store

(* A legacy list of seven times, out of order and with a time twice, is *)
(* loaded while storage cannot be written.                              *)
C23_Witness ==
    /\ BoardKey \in StoredLists
    /\ IsLegacyList(StoredItems(BoardKey))
    /\ Len(StoredItems(BoardKey)) > LEADERBOARD_LIMIT
    /\ leaderboard = Loaded(TRUE, FALSE).store
    /\ Len(leaderboard[BoardKey]) = LEADERBOARD_LIMIT
    /\ leaderboard[BoardKey][3].time = leaderboard[BoardKey][4].time

(* The time an item states: the item itself in a legacy list, the time *)
(* property of an entry.                                               *)
StatedTime(item) ==
    IF item.type \in {"number", "string"} THEN item ELSE Member(item, "time")

(* The stated time is a number outside [0, MaxElapsed]. *)
TimeOutside(item) ==
    /\ StatedTime(item).type = "number"
    /\ \/ StatedTime(item).num < 0
       \/ StatedTime(item).num > MaxElapsed
       \/ StatedTime(item).num = MaxElapsed /\ "half" \in DOMAIN StatedTime(item)

(* The stated time, converted to a number and floored, is in range. *)
TimeAccepted(item) ==
    /\ item.type \in {"number", "string", "object"}
    /\ ~ToNumber(StatedTime(item)).nan
    /\ ToNumber(StatedTime(item)).whole \in 0..MaxElapsed

AcceptedCount(items) == Cardinality({i \in 1..Len(items) : TimeAccepted(items[i])})

(* C24 as stated: a list whose items all have a time outside *)
(* [0, 999] leaves no key in the store returned.             *)
C24_OutsideRangeDropped ==
    \A key \in StoredLists :
        (\A i \in 1..Len(StoredItems(key)) : TimeOutside(StoredItems(key)[i]))
            => key \notin DOMAIN Loaded(TRUE, TRUE).store

(* C24: on load an item is kept exactly if its time, converted to a     *)
(* number and floored, is in [0, 999] (999.5 is floored to 999 and      *)
(* kept); values under a key that are no array are dropped; a key whose *)
(* items are all dropped is absent; every entry returned has an integer *)
(* time in [0, 999] and a non-empty name of at most 12 characters.      *)
C24_OnlyValidEntries ==
    /\ DOMAIN Loaded(TRUE, TRUE).store
         = {key \in StoredLists : AcceptedCount(StoredItems(key)) > 0}
    /\ \A key \in DOMAIN Loaded(TRUE, TRUE).store :
         /\ Len(Loaded(TRUE, TRUE).store[key])
              = Min2(LEADERBOARD_LIMIT, AcceptedCount(StoredItems(key)))
         /\ \A i \in 1..Len(Loaded(TRUE, TRUE).store[key]) :
              /\ Loaded(TRUE, TRUE).store[key][i].time \in 0..MaxElapsed
              /\ Len(Loaded(TRUE, TRUE).store[key][i].name)
                   \in 1..MAX_NICKNAME_LENGTH
    /\ \A key \in DOMAIN leaderboard :
         \A i \in 1..Len(leaderboard[key]) :
            /\ leaderboard[key][i].time \in 0..MaxElapsed
            /\ Len(leaderboard[key][i].name) \in 1..MAX_NICKNAME_LENGTH

(* A list of 999.5 and 1000 is loaded: one entry, of 999 seconds. *)
C24_Witness ==
    /\ BoardKey \in StoredLists
    /\ StoredItems(BoardKey) = <<JsonHalf(MaxElapsed), JsonNumber(MaxElapsed + 1)>>
    /\ leaderboard = Loaded(TRUE, FALSE).store
    /\ Len(leaderboard[BoardKey]) = 1
    /\ leaderboard[BoardKey][1].time = MaxElapsed

(* The load converts an item: a legacy time becomes an entry, or an *)
(* entry's name is not what normalizeNickname makes of it.          *)
ConvertsItem(item) ==
    /\ TimeAccepted(item)
    /\ \/ item.type \in {"number", "string"}
       \/ Member(item, "name") # JsonString(normalizeNickname(Member(item, "name")))

Converts ==
    \E key \in StoredLists :
        \E i \in 1..Len(StoredItems(key)) : ConvertsItem(StoredItems(key)[i])

(* C25 as stated: with writable storage, after any load of a stored *)
(* object the persisted payload equals the store returned.          *)
C25_StoredEqualsReturned ==
    ~NoStoreStored =>
        Loaded(TRUE, TRUE).w.storage = Some(StoreToJson(Loaded(TRUE, TRUE).store))

(* C25: with writable storage, a load that converts a legacy time into   *)
(* an entry or changes an entry's name writes the sanitized store back:  *)
(* the persisted payload equals the store returned.  A load that only    *)
(* coerces or floors a time, drops an item or a key, re-sorts or         *)
(* truncates writes nothing: the payload stays as it was.                *)
C25_WritesBackConversions ==
    ~NoStoreStored =>
        IF Converts
        THEN Loaded(TRUE, TRUE).w.storage = Some(StoreToJson(Loaded(TRUE, TRUE).store))
        ELSE Loaded(TRUE, TRUE).w.storage = storage

(* Six entries out of order were loaded from writable storage: the *)
(* leaderboard holds five in order, storage still the six.         *)
C25_Witness ==
    /\ BoardKey \in StoredLists
    /\ Len(StoredItems(BoardKey)) > LEADERBOARD_LIMIT
    /\ ~Converts
    /\ leaderboard = Loaded(TRUE, TRUE).store
    /\ Len(leaderboard[BoardKey]) = LEADERBOARD_LIMIT
    /\ storage # Some(StoreToJson(leaderboard))

(* The world with nothing stored: what the session is apart from storage. *)
Unstored(w) == [w EXCEPT !.storage = NULL]

(* C26: a storage write that fails while a win is recorded, the records *)
(* are cleared or a load migrates is swallowed: the handler ends as it  *)
(* does when the write succeeds (the session WON with the new entry in  *)
(* the leaderboard, resp. the leaderboard empty or sanitized), except   *)
(* that storage holds what it held; and what reveal, flag, reset, new   *)
(* game and clear do afterwards does not depend on what storage holds.  *)
(* The same holds of a hint that wins.                                  *)
C26_WriteFailureSwallowed ==
    /\ \A row \in Rows, col \in Cols :
         \A js \in ShuffleDraws(row, col) :
            /\ handleCellClick(World, row, col, js, now, FALSE)
                 = [handleCellClick(World, row, col, js, now, TRUE)
                      EXCEPT !.storage = storage]
            /\ Unstored(handleCellClick(Unstored(World), row, col, js, now, FALSE))
                 = Unstored(handleCellClick(World, row, col, js, now, FALSE))
    /\ \A cell \in HintCells, rnd \in HintPicks :
         \A js \in ShuffleDraws(cell[1], cell[2]) :
            handleHint(World, cell[1], cell[2], rnd, js, now, FALSE)
               = [handleHint(World, cell[1], cell[2], rnd, js, now, TRUE)
                    EXCEPT !.storage = storage]
    /\ \A row \in Rows, col \in Cols :
         Unstored(toggleFlag(Unstored(World), row, col))
            = Unstored(toggleFlag(World, row, col))
    /\ Unstored(resetTimerOnly(Unstored(World), now))
         = Unstored(resetTimerOnly(World, now))
    /\ \A config \in BoardConfigs :
         Unstored(startNewGame(Unstored(World), config, now))
            = Unstored(startNewGame(World, config, now))
    /\ clearRecords(World, FALSE)
         = [clearRecords(World, TRUE) EXCEPT !.storage = storage]
    /\ Unstored(clearRecords(Unstored(World), FALSE))
         = Unstored(clearRecords(World, FALSE))
    /\ \A readOk \in BOOLEAN :
         PageLoad(storage, readOk, FALSE, now)
            = [PageLoad(storage, readOk, TRUE, now) EXCEPT !.storage = storage]
    /\ Won => tone = "win"

(* A session won while storage could not be written: the leaderboard *)
(* holds the new entry, storage does not.                            *)
C26_Witness ==
    /\ Won
    /\ tone = "win"
    /\ [name |-> settings.nickname, time |-> state.elapsed]
          \in EntriesOf(RecordsOf(leaderboard, SessionKey))
    /\ storage # Some(StoreToJson(leaderboard))
    /\ storage = NULL

(* The session of world w is the fresh session of config: READY, every *)
(* cell closed and blank, every counter zero, no timer.                *)
IsFreshSession(w, config) ==
    /\ w.state.config = config
    /\ DOMAIN w.state.board = 0..(config.rows - 1)
    /\ \A r \in 0..(config.rows - 1) :
         /\ DOMAIN w.state.board[r] = 0..(config.cols - 1)
         /\ \A c \in 0..(config.cols - 1) :
              /\ ~w.state.board[r][c].isOpen
              /\ ~w.state.board[r][c].isFlagged
              /\ ~w.state.board[r][c].isMine
              /\ ~w.state.board[r][c].isWrongFlag
              /\ w.state.board[r][c].adjacent = 0
    /\ w.state.flags = 0
    /\ w.state.openCount = 0
    /\ w.state.hintsUsed = 0
    /\ w.state.elapsed = 0
    /\ ~w.state.minesPlaced
    /\ ~w.state.isGameOver
    /\ ~w.state.didWin
    /\ w.state.timerId = NULL
    /\ w.state.startTime = NULL
    /\ w.intervals = {}
    /\ w.tone = "ready"

(* C27: a new game started from any session (READY, PLAYING, WON, LOST), *)
(* at any reading of the clock, replaces the session wholesale: status   *)
(* READY, every cell closed, unflagged, no mine, adjacent 0, isWrongFlag *)
(* false; flags, openCount, hintsUsed and elapsed 0; minesPlaced,        *)
(* isGameOver and didWin false; the timer stopped, with no start anchor; *)
(* the leaderboard, storage and the nickname are as they were.           *)
C27_NewGameReplacesSession ==
    \A config \in TimerConfigs :
        /\ IsFreshSession(startNewGame(World, config, now), config)
        /\ startNewGame(World, config, now).leaderboard = leaderboard
        /\ startNewGame(World, config, now).storage = storage
        /\ startNewGame(World, config, now).settings = settings

(* A session won past its first second, with a flag set and a hint used,  *)
(* its record in the leaderboard: a new game from it is a fresh session  *)
(* and keeps the record.                                                 *)
C27_Witness ==
    /\ Won
    /\ state.elapsed >= 1
    /\ state.flags >= 1
    /\ state.hintsUsed >= 1
    /\ RecordCount >= 1
    /\ startNewGame(World, state.config, now).state.elapsed = 0
    /\ startNewGame(World, state.config, now).leaderboard = leaderboard

(* C28: mines are placed once in a session: before the first reveal the  *)
(* board has no mine, and once minesPlaced is set every reveal, flag,    *)
(* hint, reset, tick and passing of time leaves each cell's isMine and   *)
(* adjacent as they are, so that placement has not run again; only a new *)
(* game, which starts a fresh session, clears minesPlaced.               *)
C28_MinesPlacedOnce ==
    /\ [](~state.minesPlaced => \A p \in Cells : ~CellAt(p).isMine)
    /\ [][state.minesPlaced =>
            IF state'.minesPlaced
            THEN /\ state'.config = state.config
                 /\ \A p \in Cells :
                      /\ state'.board[p[1]][p[2]].isMine = CellAt(p).isMine
                      /\ state'.board[p[1]][p[2]].adjacent = CellAt(p).adjacent
            ELSE state' = createInitialState(state'.config)]_vars

(* A session in play past its first second with two cells open, a flag *)
(* set and a hint used: its mine is where the first reveal put it.     *)
C28_Witness ==
    /\ Status = "PLAYING"
    /\ state.openCount >= 2
    /\ state.flags >= 1
    /\ state.hintsUsed >= 1
    /\ state.elapsed >= 1
    /\ Cardinality(MineCells) = state.config.mines

(* Cell p of world after is one a flood from its neighbour goes on      *)
(* through: no mine, no flag, adjacent 0 (and, with closedOnly, closed  *)
(* before the reveal).                                                  *)
GoesThrough(after, p, closedOnly) ==
    /\ ~CellIn(after, p).isMine
    /\ ~CellIn(after, p).isFlagged
    /\ CellIn(after, p).adjacent = 0
    /\ closedOnly => ~CellAt(p).isOpen

(* The cells a path of such cells from the cells of region reaches. *)
RECURSIVE ZeroRegion(_, _, _)
ZeroRegion(after, region, closedOnly) ==
    LET more == {q \in Cells : /\ GoesThrough(after, q, closedOnly)
                               /\ \E z \in region : Touches(z, q)}
    IN  IF more \subseteq region THEN region
        ELSE ZeroRegion(after, region \cup more, closedOnly)

(* The cells without mine and flag that such a path from s ends in. *)
FloodTargets(after, s, closedOnly) ==
    {q \in Cells : /\ ~CellIn(after, q).isMine
                   /\ ~CellIn(after, q).isFlagged
                   /\ \E z \in ZeroRegion(after, {s}, closedOnly) : Touches(z, q)}

(* The reveal of s is one of a closed cell that turns out to have no *)
(* mine around it: after is the session the reveal leaves.           *)
RevealsZero(after, s) ==
    /\ ~state.isGameOver
    /\ ~CellAt(s).isOpen
    /\ ~CellAt(s).isFlagged
    /\ ~CellIn(after, s).isMine
    /\ CellIn(after, s).adjacent = 0

OpenedBy(after) == {p \in Cells : ~CellAt(p).isOpen /\ CellIn(after, p).isOpen}

(* C29 as stated: the reveal of a closed zero cell s opens every cell   *)
(* without mine and flag that a path through unflagged zero cells, open *)
(* or closed, reaches from s.                                           *)
C29_FloodOpensAllReachable ==
    \A s \in Cells :
        \A js \in ShuffleDraws(s[1], s[2]) :
            RevealsZero(handleCellClick(World, s[1], s[2], js, now, TRUE), s) =>
                \A q \in FloodTargets(handleCellClick(World, s[1], s[2], js, now, TRUE),
                                      s, FALSE) :
                    CellIn(handleCellClick(World, s[1], s[2], js, now, TRUE), q).isOpen

(* C29: the reveal of a closed zero cell s opens every cell without mine *)
(* and flag that a path of 8-neighbour steps reaches from s through      *)
(* unflagged zero cells that were closed before the reveal, and          *)
(* openCount grows by exactly the number of cells the reveal opens.      *)
C29_FloodOpensReachable ==
    \A s \in Cells :
        \A js \in ShuffleDraws(s[1], s[2]) :
            LET after == handleCellClick(World, s[1], s[2], js, now, TRUE)
            IN  RevealsZero(after, s) =>
                  /\ \A q \in FloodTargets(after, s, TRUE) : CellIn(after, q).isOpen
                  /\ after.state.openCount
                       = state.openCount + Cardinality(OpenedBy(after))

(* Two zero cells were flagged when the zero cell between them was      *)
(* revealed, and are unflagged now: both are closed beside an open zero *)
(* cell, and the reveal of one leaves the other closed.                 *)
C29_Witness ==
    \E s \in Cells, z \in Cells, q \in Cells :
        /\ s # q /\ ~Touches(s, q) /\ Touches(s, z) /\ Touches(z, q)
        /\ state.minesPlaced /\ ~state.isGameOver
        /\ CellAt(z).isOpen /\ CellAt(z).adjacent = 0
        /\ ~CellAt(s).isOpen /\ ~CellAt(s).isFlagged /\ CellAt(s).adjacent = 0
        /\ ~CellAt(q).isOpen /\ ~CellAt(q).isFlagged /\ ~CellAt(q).isMine
        /\ CellIn(handleCellClick(World, s[1], s[2], NoDraws, now, TRUE), s).isOpen
        /\ ~CellIn(handleCellClick(World, s[1], s[2], NoDraws, now, TRUE), q).isOpen

(* The session state in which openCell calls floodOpen for s: s is *)
(* marked open and counted.                                       *)
MarkedOpen(s) ==
    [state EXCEPT !.board[s[1]][s[2]].isOpen = TRUE, !.openCount = @ + 1]

(* Every coordinate the stack of the flood from s holds at some time: *)
(* the start and the coordinates pushed.                              *)
StackedBy(s) == << s >> \o FloodPushed(MarkedOpen(s), << s >>)

(* The closed cells from which a reveal starts a flood. *)
FloodStarts ==
    IF state.isGameOver \/ ~state.minesPlaced THEN {}
    ELSE {s \in Cells : /\ ~CellAt(s).isOpen /\ ~CellAt(s).isFlagged
                        /\ ~CellAt(s).isMine /\ CellAt(s).adjacent = 0}

(* C30: the flood from every start cell of every board ends, after at   *)
(* most rows * cols turns of its loop: no coordinate is put on the      *)
(* stack twice, a cell that is open is not opened and counted again,    *)
(* and so openCount counts each cell opened once (in a lost session the *)
(* mine hit is counted, the mines and wrong flags shown are not) and is *)
(* never above rows * cols.                                             *)
C30_FloodEnds ==
    /\ \A s \in FloodStarts :
         /\ Len(StackedBy(s)) <= state.config.rows * state.config.cols
         /\ \A i \in 1..Len(StackedBy(s)), j \in 1..Len(StackedBy(s)) :
              i # j => StackedBy(s)[i] # StackedBy(s)[j]
         /\ FloodLoop(MarkedOpen(s), << s >>).openCount
              = state.openCount
                  + Cardinality({p \in Cells :
                        /\ ~CellAt(p).isOpen
                        /\ FloodLoop(MarkedOpen(s), << s >>).board[p[1]][p[2]].isOpen})
    /\ \A p \in Cells : CellAt(p).isOpen => openCell(World, p[1], p[2]).w = World
    /\ state.openCount
         = Cardinality({p \in Cells : /\ CellAt(p).isOpen /\ ~CellAt(p).isMine
                                      /\ ~CellAt(p).isFlagged})
             + (IF Lost THEN 1 ELSE 0)
    /\ state.openCount <= state.config.rows * state.config.cols

(* A session in play in which the reveal of a closed zero cell puts *)
(* three coordinates on the stack and opens five cells.             *)
C30_Witness ==
    \E s \in FloodStarts :
        /\ Len(StackedBy(s)) >= 3
        /\ FloodLoop(MarkedOpen(s), << s >>).openCount >= state.openCount + 5
        /\ state.openCount >= 1

(* The closed cells without a mine. *)
ClosedSafeCells == {p \in Cells : ~CellAt(p).isOpen /\ ~CellAt(p).isMine}

(* C31 as stated: in every PLAYING state a hint finds a cell. *)
C31_PlayingHintFinds ==
    Status = "PLAYING" =>
        \A rnd \in RandomBelow(Len(HintPool(state))) : findHintCell(World, rnd) # NULL

(* C31: in a session in play, findHintCell returns none exactly when     *)
(* every closed cell that is not flagged is a mine, that is when every   *)
(* closed cell without a mine is flagged; some closed cell without a     *)
(* mine is always left, so a hint finds a cell unless all of them are    *)
(* flagged, and then it changes nothing.                                  *)
C31_HintFindsUnflaggedSafe ==
    Status = "PLAYING" =>
        /\ ClosedSafeCells # {}
        /\ \A rnd \in RandomBelow(Len(HintPool(state))) :
             /\ findHintCell(World, rnd) = NULL
                  <=> \A p \in ClosedSafeCells : CellAt(p).isFlagged
             /\ findHintCell(World, rnd) = NULL =>
                  handleHint(World, 0, 0, rnd, NoDraws, now, TRUE) = World

(* A session in play whose closed cells without a mine are all flagged, *)
(* while a mine is closed and not flagged: the hint finds nothing.      *)
C31_Witness ==
    /\ Status = "PLAYING"
    /\ \A p \in ClosedSafeCells : CellAt(p).isFlagged
    /\ \E p \in MineCells : ~CellAt(p).isFlagged
    /\ findHintCell(World, 0) = NULL

(* C32: a cell has isWrongFlag only in a LOST session, and only if it is *)
(* flagged, no mine and open; no cell has it in READY, PLAYING and WON;  *)
(* and once a cell has it, it keeps it, flagged and open, through every  *)
(* reveal, flag, hint, reset and tick until a new game replaces the      *)
(* session.                                                              *)
C32_WrongFlagOnlyLost ==
    /\ [](\A p \in Cells :
            CellAt(p).isWrongFlag =>
                /\ Lost
                /\ CellAt(p).isFlagged
                /\ ~CellAt(p).isMine
                /\ CellAt(p).isOpen)
    /\ [][(\E p \in Cells : CellAt(p).isWrongFlag) =>
            \/ state'.board = state.board
            \/ state' = createInitialState(state'.config)]_vars

(* A lost session that shows a wrong flag beside the mine that was hit, *)
(* after a reset of its timer.                                          *)
C32_Witness ==
    /\ Lost
    /\ \E p \in Cells : CellAt(p).isWrongFlag /\ CellAt(p).isFlagged
    /\ \E p \in MineCells : CellAt(p).isOpen /\ ~CellAt(p).isFlagged
    /\ state.hintsUsed >= 1

(* The times a win may record. *)
WinTimes == {0, 1, 2, MaxElapsed}

(* The entry a win at time records, and the session's records after it. *)
WinEntry(time) == [name |-> settings.nickname, time |-> time]

RecordsAfterWin(time) == RecordsOf(recordWin(World, time, TRUE).leaderboard, SessionKey)

(* The number of the session's records that are not slower than time. *)
NotSlower(time) ==
    Cardinality({i \in 1..Len(RecordsOf(leaderboard, SessionKey)) :
                    RecordsOf(leaderboard, SessionKey)[i].time <= time})

(* C33: recording a win keeps the records of the key in their order and *)
(* puts the new entry behind every record whose time is not greater and *)
(* before every record whose time is greater; the records past the      *)
(* fifth are dropped, so a key that holds 5 records none of which is    *)
(* slower than the new entry is left as it is.                          *)
C33_NewEntryAfterEqualTimes ==
    \A time \in WinTimes :
        /\ \A i \in 1..Len(RecordsAfterWin(time)) :
             RecordsAfterWin(time)[i] =
                IF i <= NotSlower(time) THEN RecordsOf(leaderboard, SessionKey)[i]
                ELSE IF i = NotSlower(time) + 1 THEN WinEntry(time)
                ELSE RecordsOf(leaderboard, SessionKey)[i - 1]
        /\ Len(RecordsAfterWin(time))
             = Min2(LEADERBOARD_LIMIT, Len(RecordsOf(leaderboard, SessionKey)) + 1)
        /\ NotSlower(time) >= LEADERBOARD_LIMIT =>
             RecordsAfterWin(time) = RecordsOf(leaderboard, SessionKey)

(* A session won in 0 seconds on a key that held five records of 0 *)
(* seconds: the five are left, the new entry is not among them.    *)
C33_Witness ==
    /\ Won
    /\ Len(RecordsOf(leaderboard, SessionKey)) = LEADERBOARD_LIMIT
    /\ \A i \in 1..LEADERBOARD_LIMIT :
         /\ leaderboard[SessionKey][i].time = state.elapsed
         /\ leaderboard[SessionKey][i].name # settings.nickname
    /\ storage = Some(StoreToJson(leaderboard))

(* The invariant of a configuration: whole numbers, a board, and room *)
(* for the mines and one cell without.                                *)
ValidConfig(config) ==
    /\ config.rows \in Nat /\ config.rows > 0
    /\ config.cols \in Nat /\ config.cols > 0
    /\ config.mines \in Nat
    /\ 0 < config.mines /\ config.mines < config.rows * config.cols

(* C34: the configuration of every session has rows > 0, cols > 0 and   *)
(* 0 < mines < rows * cols; for every three integers (or nothing)       *)
(* entered as custom configuration, new game gets 6 <= cols <= 40,      *)
(* 6 <= rows <= 30 and 1 <= mines <= rows * cols - 1; the three preset  *)
(* difficulties have the invariant.                                     *)
C34_ConfigInRange ==
    /\ ValidConfig(state.config)
    /\ DOMAIN state.board = 0..(state.config.rows - 1)
    /\ \A config \in UIConfigs("custom") :
         /\ config.cols \in 6..40
         /\ config.rows \in 6..30
         /\ config.mines \in 1..(config.rows * config.cols - 1)
    /\ \A key \in DifficultyKeys \ {"custom"} :
         /\ ValidConfig(difficulties[key])
         /\ UIConfigs(key) = {difficulties[key]}

(* A custom session on the smallest board with the most mines it takes: *)
(* 5000 was entered for a board of 36 cells.                            *)
C34_Witness ==
    /\ state.config = [rows |-> 6, cols |-> 6, mines |-> 35]
    /\ state.config = getConfigFromUI("custom", <<"5">>, <<"0">>,
                                      <<"5", "0", "0", "0">>)
    /\ Status = "READY"

OpenCells == {p \in Cells : CellAt(p).isOpen}

(* C35: while the session is not LOST no mine is open and openCount is   *)
(* the number of open cells, at most rows * cols - mines and equal to it *)
(* exactly in WON; in LOST openCount counts the safe cells that were     *)
(* revealed and the mine that was hit, not the mines and wrong flags the *)
(* end-of-game reveal opened.                                            *)
C35_OpenCountCountsReveals ==
    IF ~Lost
    THEN /\ OpenCells \cap MineCells = {}
         /\ state.openCount = Cardinality(OpenCells)
         /\ state.openCount <= SafeCellCount
         /\ (state.openCount = SafeCellCount) <=> Won
    ELSE /\ state.openCount
              = 1 + Cardinality({p \in OpenCells :
                                    ~CellAt(p).isMine /\ ~CellAt(p).isWrongFlag})
         /\ MineCells \subseteq OpenCells
         /\ state.openCount <= Cardinality(OpenCells)

(* A lost session with two mines, one hit and one shown, and a wrong *)
(* flag shown: three cells are open that two reveals did not count.  *)
C35_Witness ==
    /\ Lost
    /\ Cardinality(MineCells) >= 2
    /\ \E p \in Cells : CellAt(p).isWrongFlag
    /\ state.openCount >= 2
    /\ Cardinality(OpenCells) >= state.openCount + 2

(* In session state s every neighbour of every open cell with no mine *)
(* around is open or flagged.                                         *)
ExpansionClosedIn(s) ==
    \A z \in Cells, q \in Cells :
        (/\ Touches(z, q)
         /\ s.board[z[1]][z[2]].isOpen
         /\ ~s.board[z[1]][z[2]].isMine
         /\ s.board[z[1]][z[2]].adjacent = 0)
            => (s.board[q[1]][q[2]].isOpen \/ s.board[q[1]][q[2]].isFlagged)

StalePresses ==
    {i \in DOMAIN pressTimers : pressTimers[i].detached /\ ~pressTimers[i].fired}

(* C37: the long-press callback of a cell of a replaced session changes *)
(* nothing of the new session when it runs, neither a flag nor the flag *)
(* counter, and its coordinate is inside the new board.                 *)
C37_StalePressInert ==
    \A i \in StalePresses :
        /\ InBounds(state.config.rows, state.config.cols,
                    pressTimers[i].row, pressTimers[i].col)
        /\ LongPressCallback(World, pressTimers[i].row, pressTimers[i].col) = World

(* loadLeaderboard over storage that holds what saveLeaderboard writes for *)
(* store.                                                                  *)
LoadedAgain(store) ==
    loadLeaderboard([World EXCEPT !.storage = Some(StoreToJson(store))], TRUE, TRUE)

(* Whether loadLeaderboard sets `migrated` over what saveLeaderboard writes *)
(* for store.                                                               *)
MigratesAgain(store) ==
    \E key \in DOMAIN store :
        SanitizeItems(StoreToJson(store).members[key].items).migrated

(* C38: the store a load returned, serialized and loaded again, comes back *)
(* equal, same keys and same entries in the same order, and the second     *)
(* load migrates nothing.                                                  *)
C38_LoadIdempotent ==
    /\ LoadedAgain(leaderboard).store = leaderboard
    /\ ~MigratesAgain(leaderboard)

(* What the hint button does now, for the pick rnd from the pool. *)
Hinted(rnd) == handleHint(World, 0, 0, rnd, NoDraws, now, TRUE)

(* C39: in a session that is not over and has its mines placed the hint *)
(* button reveals and flags nothing: the board, openCount, flags, the   *)
(* status, the timer and the leaderboard stay as they are, and at most  *)
(* hintsUsed changes, by one; and every step of such a session that     *)
(* changes hintsUsed changes nothing else.                              *)
C39_HintOnlyCounts ==
    /\ [](state.minesPlaced /\ ~state.isGameOver =>
            \A rnd \in HintPicks :
                /\ [Hinted(rnd) EXCEPT !.state.hintsUsed = state.hintsUsed] = World
                /\ Hinted(rnd).state.hintsUsed \in
                      {state.hintsUsed, state.hintsUsed + 1})
    /\ [][(/\ state.minesPlaced
           /\ ~state.isGameOver
           /\ state'.hintsUsed # state.hintsUsed) =>
             /\ state' = [state EXCEPT !.hintsUsed = @ + 1]
             /\ UNCHANGED <<leaderboard, storage, intervals, settings, tone>>]_vars

(* A session in play with an open cell and a flag, its hint used, in *)
(* which the hint button has a cell to show.                         *)
C39_Witness ==
    /\ Status = "PLAYING"
    /\ state.hintsUsed = MaxHints
    /\ state.flags > 0
    /\ OpenCells # {}
    /\ \E rnd \in HintPicks : Hinted(rnd).state.hintsUsed = state.hintsUsed + 1

====
